---- MODULE Spec2Model ----
(***************************************************************************)
(* State-machine model of klc213bk/utr1:                                   *)
(*   - the execution simulator (src/execution-simulator/main.py),          *)
(*   - the built-in strategies (src/strategy-engine/strategies/*.py),      *)
(*   - the strategy registry (strategies/strategy_registry.py),            *)
(*   - the strategy engine (src/strategy-engine/main.py).                  *)
(*                                                                         *)
(* Conventions.                                                            *)
(*   A JSON number field of a message is a pair <<tag, n>>: the key is     *)
(*   missing ("absent"), holds null or a non-number ("null"), or holds the *)
(*   number n ("num").  A JSON string field is the string, or KeyAbsent.   *)
(*   An optional Python value (X or None) is a sequence of length <= 1.    *)
(*   Dollar amounts are integers in micro-dollars (1 cent = 10000), the    *)
(*   slippage percentage is an integer in hundredths of a percent, so that *)
(*   base_price * (slippage_pct / 100) is an exact integer.                *)
(***************************************************************************)
EXTENDS Integers, Sequences, FiniteSets, TLC

VARIABLES
    \* ---- ExecutionSimulator (src/execution-simulator/main.py:29-39) ----
    sessions,        \* self.sessions: strategy_id -> session dict
    fill_count,      \* self.fill_count
    current_prices,  \* self.current_prices: symbol -> latest bar fields
    running,         \* self.running
    config,          \* self.config
    inflight,        \* the handle_signal coroutine suspended in `await nc.publish`:
                     \* None, or Some(its signal and the message it is publishing)
    fill_id_log,     \* numbers of the fill_ids issued so far, in issue order
    \* ---- a strategy instance (src/strategy-engine/strategies/*.py) ----
    strategy,        \* None, or Some(the instance the registry created last)
    returned,        \* what its process_bar calls returned, in call order
    rsi_log,         \* what get_rsi gave in each of these calls (None: not computed)
    fed,             \* the bars these calls were given, in call order
    delivered,       \* how many of the signals returned reached the simulator
    \* ---- StrategyRegistry (strategies/strategy_registry.py:35-37) ----
    registry,        \* self._strategies: the entries in insertion order
    created,         \* None, or Some(how the last create_strategy call ended)
    \* ---- StrategyEngine (src/strategy-engine/main.py:30-39) ----
    strategies,      \* self.strategies: strategy_id -> {sub, status, type, instance}
    strategy_message_counts,   \* self.strategy_message_counts
    message_count,   \* self.message_count
    subs,            \* the subscriptions the bus delivers bars to: sub -> its handler
    heap,            \* the strategy instances the engine created, and the calls
                     \* made on each
    pending,         \* the HTTP handlers suspended in an await
    bus,             \* the bus client's side of each subscription: the messages
                     \* that arrived for it and how far its callback got
    response         \* None, or Some(the body of the engine's last HTTP response)

simVars == <<sessions, fill_count, current_prices, running, config, inflight, fill_id_log>>

stratVars == <<strategy, returned, rsi_log, fed, delivered>>

regVars == <<registry, created>>

engVars == <<strategies, strategy_message_counts, message_count, subs, heap, pending, bus,
            response>>

vars == <<sessions, fill_count, current_prices, running, config, inflight, fill_id_log,
          strategy, returned, rsi_log, fed, delivered, registry, created,
          strategies, strategy_message_counts, message_count, subs, heap, pending,
          bus, response>>

----------------------------------------------------------------------------
\* Bounds of the model

MaxIssued == 2      \* signals are no longer fed once that many fills were made
MaxQty == 2         \* largest quantity of a well-formed signal
MaxBars == 6        \* bars fed to one strategy instance
MaxPeriod == 3      \* largest moving-average period asked for
MaxLoads == 2       \* strategy instances the engine creates
MaxMessages == 2    \* bar messages delivered to the engine's handlers
MaxStops == 2       \* on_stop calls made on one instance
MaxFed == 107       \* bars fed to one instance when its window is to overflow
MaxArrived == 4     \* bar messages that arrive for one subscription

----------------------------------------------------------------------------
\* JSON / Python value helpers

KeyAbsent == "<absent>"
Absent == <<"absent", 0>>
Null == <<"null", 0>>
Num(n) == <<"num", n>>
None == <<>>
Some(v) == <<v>>

\* dict.get(key, default) on a number field: the default only when the key is missing
GetNum(field, default) == IF field[1] = "absent" THEN default ELSE field
\* dict.get(key, default) on a string field
GetStr(field, default) == IF field = KeyAbsent THEN default ELSE field
\* Python truthiness of value.get(key): None and 0 are falsy
Truthy(field) == field[1] = "num" /\ field[2] # 0
\* float(x) raises TypeError/ValueError unless x is a number
FloatRaises(field) == field[1] # "num"

Cent == 100 * 100   \* micro-dollars per cent
Dollars(n) == n * 100 * Cent
DefaultPrice == Dollars(450)   \* signal.get("price", 450.0)

\* round(x, 2) of a non-negative amount, in micro-dollars: the values it can give.
\* An exact tie of the decimal value is decided by the binary representation of
\* the float, which the fixed-point value does not determine: it falls either way.
Round2(x) ==
    LET lo == (x \div Cent) * Cent
        rem == x % Cent
    IN  IF rem * 2 < Cent THEN {lo}
        ELSE IF rem * 2 > Cent THEN {lo + Cent}
        ELSE {lo, lo + Cent}

\* x * (pct / 100), pct in hundredths of a percent (whole micro-dollars, computed
\* in two parts to stay within 32-bit integers)
Percent(x, pct) == (x \div Cent) * pct + ((x % Cent) * pct) \div Cent

----------------------------------------------------------------------------
\* Inputs

\* A decoded signal payload (strategy.signals.*).
Signal(strategy_id, symbol, action, quantity, price) ==
    [strategy_id |-> strategy_id, symbol |-> symbol, action |-> action,
     quantity |-> quantity, price |-> price]

\* Signals as the data model has them: action in {BUY, SELL}, quantity > 0, a price.
\* Two sessions ("s1", and "unknown" for a payload without strategy_id), two symbols
\* ("QQQ", and "SPY" for a payload without symbol), a small and a large lot.
TradeSignals ==
    {Signal(k[1], k[2], a, Num(q), Num(Dollars(100))) :
        k \in {<<"s1", KeyAbsent>>, <<"s1", "QQQ">>, <<KeyAbsent, KeyAbsent>>},
        a \in {"BUY", "SELL"}, q \in {1, MaxQty}}

\* Payloads that decode but are not such signals.
OtherSignals ==
    { Signal("s1", KeyAbsent, "HOLD", Num(1), Num(Dollars(100))),
      Signal("s1", KeyAbsent, KeyAbsent, Num(1), Num(Dollars(100))),
      Signal("s1", "QQQ", "BUY", Absent, Num(Dollars(100))),
      Signal("s1", KeyAbsent, "BUY", Num(-1), Num(Dollars(100))),
      Signal("s1", KeyAbsent, "BUY", Num(1), Null) }

Signals == TradeSignals \cup OtherSignals

\* Decoded bar payloads (md.equity.spy.bars.1m.replay) with the fields of the data model.
MarketBars ==
    { [symbol |-> KeyAbsent, close |-> Num(Dollars(200)), high |-> Num(Dollars(201)),
       low |-> Num(Dollars(199))] }

\* Bodies of POST /config
ConfigUpdates == { [slippage |-> 100] }

\* Path parameters of POST /positions/reset/{session_id}
SessionIds == {"s1", "unknown", "s2"}

\* None for bytes that json.loads refuses, Some(x) for a payload decoding to x
Payloads(S) == {None} \cup {Some(x) : x \in S}

EmptyMap == [k \in {} |-> 0]

\* f with key k set to v (Python: f[k] = v)
Put(f, k, v) == [x \in DOMAIN f \cup {k} |-> IF x = k THEN v ELSE f[x]]
\* f without key k (Python: del f[k])
Del(f, k) == [x \in DOMAIN f \ {k} |-> f[x]]

----------------------------------------------------------------------------
\* ExecutionSimulator.__init__

InitConfig ==
    [slippage |-> 1, commission |-> Dollars(1), fill_mode |-> "realistic"]

SimInit ==
    /\ sessions = EmptyMap
    /\ fill_count = 0
    /\ current_prices = EmptyMap
    /\ running = TRUE
    /\ config = InitConfig
    /\ inflight = None
    /\ fill_id_log = << >>

\* The registry after discover_strategies (strategy_registry.py:62-121, 244-255):
\* the classes of buy_and_hold.py, ma_crossover.py and rsi_strategy.py, here in the
\* order of the file names (glob gives them in the order of the directory).
Discovered ==
    << [name |-> "buy_hold", class |-> "BuyAndHoldStrategy"],
       [name |-> "ma_cross", class |-> "MACrossoverStrategy"],
       [name |-> "rsi", class |-> "RSIStrategy"] >>

\* StrategyEngine.__init__ (strategy-engine/main.py:30-39); no subscription yet.
EngineInit ==
    /\ registry = Discovered
    /\ created = None
    /\ strategies = EmptyMap
    /\ strategy_message_counts = EmptyMap
    /\ message_count = 0
    /\ subs = EmptyMap
    /\ heap = << >>
    /\ pending = {}
    /\ bus = EmptyMap
    /\ response = None

\* No strategy instance has been created yet.
Init ==
    /\ SimInit
    /\ strategy = None
    /\ returned = << >>
    /\ rsi_log = << >>
    /\ fed = << >>
    /\ delivered = 0
    /\ EngineInit

----------------------------------------------------------------------------
\* ExecutionSimulator.simulate_fill (src/execution-simulator/main.py:178-255)

\* session["positions"].get(symbol, 0)
PositionOf(session, symbol) ==
    IF symbol \in DOMAIN session.positions THEN session.positions[symbol] ELSE 0

\* Lines 197-206: the base price as a number field; "null" makes float() raise.
BasePriceField(signal, symbol, action, prices) ==
    IF symbol \in DOMAIN prices
    THEN IF action = "BUY" THEN prices[symbol].high ELSE prices[symbol].low
    ELSE GetNum(signal.price, Num(DefaultPrice))

\* FillQuantity without lines 193-195: the oversized SELL is filled as asked.
FillQuantity_NoClamp(action, quantity, current_position) ==
    IF action = "SELL" /\ current_position <= 0 THEN None
    ELSE Some(quantity)

\* FillQuantity refusing a SELL only below 0 (line 189 with < for <=).
FillQuantity_RefuseBelowZero(action, quantity, current_position) ==
    IF action = "SELL" /\ current_position < 0 THEN None
    ELSE IF action = "SELL" /\ quantity > current_position THEN Some(current_position)
    ELSE Some(quantity)

\* Lines 189-195: the quantity that is filled, None when the trade is refused.
FillQuantity(action, quantity, current_position) ==
    IF action = "SELL" /\ current_position <= 0 THEN None
    ELSE IF action = "SELL" /\ quantity > current_position THEN Some(current_position)
    ELSE Some(quantity)

\* PositionAfter with the operands of line 224 swapped.
PositionAfter_Swapped(action, quantity, current_position) ==
    IF action = "BUY" THEN current_position + quantity
    ELSE quantity - current_position

\* Lines 219-225: the ledger entry after the fill.
PositionAfter(action, quantity, current_position) ==
    IF action = "BUY" THEN current_position + quantity
    ELSE current_position - quantity

\* NextFillNumber stepping the counter by two.
NextFillNumber_SkipsOne(fc) == fc + 2

\* Lines 227-232: the number in the next fill_id, "fill_<n>".
NextFillNumber(fc) == fc + 1

\* simulate_fill suspending between its ledger update (line 224) and its counter
\* increment (line 228), where a reset of the counter can land.
simulate_fill_ResetBeforeCounter(signal, session, fc, prices, cfg) ==
    LET symbol == GetStr(signal.symbol, "SPY")
        action == signal.action
        qfield == GetNum(signal.quantity, Num(100))
        current_position == PositionOf(session, symbol)
        refused == [raised |-> FALSE, fill |-> None, session |-> session, fill_count |-> fc]
        raises == [raised |-> TRUE, fill |-> None, session |-> session, fill_count |-> fc]
    IN  IF FillQuantity(action, qfield[2], current_position) = None THEN {refused}
        ELSE IF qfield[1] # "num" THEN {raises}
        ELSE
        LET quantity == FillQuantity(action, qfield[2], current_position)[1]
            bfield == BasePriceField(signal, symbol, action, prices)
        IN  IF FloatRaises(GetNum(signal.price, Num(DefaultPrice))) \/ FloatRaises(bfield)
            THEN {raises}
            ELSE
            LET base_price == bfield[2]
                slippage_pct == cfg.slippage
                slippage_amount == Percent(base_price, slippage_pct)
                fill_price == IF action = "BUY" THEN base_price + slippage_amount
                              ELSE base_price - slippage_amount
                after == PositionAfter(action, quantity, current_position)
                Fill(n, price, base, slip) ==
                        [fill_id |-> n,
                         strategy_id |-> signal.strategy_id,
                         backtestId |-> signal.strategy_id,
                         action |-> action,
                         symbol |-> symbol,
                         quantity |-> quantity,
                         price |-> price,
                         base_price |-> base,
                         commission |-> cfg.commission,
                         slippage_amount |-> slip,
                         slippage_pct |-> slippage_pct,
                         fill_mode |-> cfg.fill_mode,
                         position_after |-> after]
                Filled(n, fill) ==
                        [raised |-> FALSE,
                         fill |-> Some(fill),
                         session |-> [session EXCEPT !.positions = Put(@, symbol, after),
                                                     !.fills = Append(@, fill)],
                         fill_count |-> n]
            IN  { Filled(n, Fill(n, price, base, slip)) :
                      n \in {NextFillNumber(fc), NextFillNumber(0)},
                      price \in Round2(fill_price), base \in Round2(base_price),
                      slip \in Round2(slippage_amount) }

\* The whole call: the outcomes it can have (one, or one per way the roundings of
\* lines 238-242 can fall).  An outcome is what the call returns (fill: None or
\* Some(fill)), whether it raised, and the session and the fill counter it leaves.
simulate_fill(signal, session, fc, prices, cfg) ==
    LET symbol == GetStr(signal.symbol, "SPY")
        action == signal.action
        qfield == GetNum(signal.quantity, Num(100))
        current_position == PositionOf(session, symbol)
        refused == [raised |-> FALSE, fill |-> None, session |-> session, fill_count |-> fc]
        raises == [raised |-> TRUE, fill |-> None, session |-> session, fill_count |-> fc]
    IN  IF FillQuantity(action, qfield[2], current_position) = None THEN {refused}
        ELSE IF qfield[1] # "num" THEN {raises}
        ELSE
        LET quantity == FillQuantity(action, qfield[2], current_position)[1]
            bfield == BasePriceField(signal, symbol, action, prices)
        IN  IF FloatRaises(GetNum(signal.price, Num(DefaultPrice))) \/ FloatRaises(bfield)
            THEN {raises}
            ELSE
            LET base_price == bfield[2]
                slippage_pct == cfg.slippage
                slippage_amount == Percent(base_price, slippage_pct)
                fill_price == IF action = "BUY" THEN base_price + slippage_amount
                              ELSE base_price - slippage_amount
                after == PositionAfter(action, quantity, current_position)
                n == NextFillNumber(fc)
                Fill(price, base, slip) ==
                        [fill_id |-> n,
                         strategy_id |-> signal.strategy_id,
                         backtestId |-> signal.strategy_id,
                         action |-> action,
                         symbol |-> symbol,
                         quantity |-> quantity,
                         price |-> price,
                         base_price |-> base,
                         commission |-> cfg.commission,
                         slippage_amount |-> slip,
                         slippage_pct |-> slippage_pct,
                         fill_mode |-> cfg.fill_mode,
                         position_after |-> after]
                Filled(fill) ==
                        [raised |-> FALSE,
                         fill |-> Some(fill),
                         session |-> [session EXCEPT !.positions = Put(@, symbol, after),
                                                     !.fills = Append(@, fill)],
                         fill_count |-> n]
            IN  { Filled(Fill(price, base, slip)) :
                      price \in Round2(fill_price), base \in Round2(base_price),
                      slip \in Round2(slippage_amount) }

----------------------------------------------------------------------------
\* ExecutionSimulator.handle_signal (src/execution-simulator/main.py:93-176)

\* Lines 111-116: a new session.
NewSession == [positions |-> EmptyMap, total_buys |-> 0, total_sells |-> 0, fills |-> << >>]

\* Lines 108-123: the session map once the signal's session and ledger entry exist.
WithSession(ss, strategy_id, symbol) ==
    LET s0 == IF strategy_id \in DOMAIN ss THEN ss[strategy_id] ELSE NewSession
        s1 == IF symbol \in DOMAIN s0.positions THEN s0
              ELSE [s0 EXCEPT !.positions = Put(@, symbol, 0)]
    IN  Put(ss, strategy_id, s1)

\* Line 126: the signal is dropped when action or quantity is missing or falsy.
MissingFields(signal) == signal.action = KeyAbsent \/ ~Truthy(signal.quantity)

\* Line 138: fill["backtestId"] = strategy_id, on the dict that session["fills"] holds too.
Stamp(fill, strategy_id) == [fill EXCEPT !.backtestId = strategy_id]

\* Lines 156-163: the rejection notice.
RejectionNotice(signal, strategy_id, action) ==
    [type |-> "rejection", strategy_id |-> strategy_id, backtestId |-> strategy_id,
     reason |-> IF action = "SELL" THEN "Invalid position for sell" ELSE "Unknown error",
     original_signal |-> signal]

\* One message handed to nc.publish: a fill or a rejection notice.
Message(subject, kind, payload) == [subject |-> subject, kind |-> kind, payload |-> payload]

\* The frame of the callback while it awaits nc.publish (lines 141 and 167): the
\* signal it decoded and the message it is publishing.
Awaiting(signal, message) == [signal |-> signal, publishing |-> message]

\* The callback up to its first suspension: it returns, or it awaits nc.publish.
\* payload is None for bytes that json.loads refuses, Some(signal) otherwise.
\* Callbacks of one subscription run one after the other.
handle_signal(payload) ==
    /\ inflight = None
    /\ Len(fill_id_log) < MaxIssued
    /\ IF ~running \/ payload = None
       THEN UNCHANGED <<sessions, fill_count, inflight, fill_id_log>>
       ELSE
       LET signal == payload[1]
           strategy_id == GetStr(signal.strategy_id, "unknown")
           symbol == GetStr(signal.symbol, "SPY")
           action == signal.action
           ready == WithSession(sessions, strategy_id, symbol)
       IN  IF MissingFields(signal)
           THEN /\ sessions' = ready
                /\ UNCHANGED <<fill_count, inflight, fill_id_log>>
           ELSE
           \E r \in simulate_fill(signal, ready[strategy_id], fill_count,
                                   current_prices, config) :
               IF r.raised
               THEN /\ sessions' = ready
                    /\ UNCHANGED <<fill_count, inflight, fill_id_log>>
               ELSE IF r.fill # None
               THEN LET fill == Stamp(r.fill[1], strategy_id)
                        n == Len(r.session.fills)
                    IN  /\ sessions' = Put(ready, strategy_id,
                                           [r.session EXCEPT !.fills[n] = fill])
                        /\ fill_count' = r.fill_count
                        /\ fill_id_log' = Append(fill_id_log, fill.fill_id)
                        /\ inflight' = Some(Awaiting(signal,
                                                Message(<<"execution.fills", strategy_id>>,
                                                        "fill", fill)))
               ELSE /\ sessions' = ready
                    /\ inflight' = Some(Awaiting(signal,
                                            Message(<<"execution.rejections", strategy_id>>,
                                                    "rejection",
                                                    RejectionNotice(signal, strategy_id, action))))
                    /\ UNCHANGED <<fill_count, fill_id_log>>
    /\ UNCHANGED <<current_prices, running, config>>

\* nc.publish returned: lines 146-150 after a fill, the end of the callback after a
\* rejection.  The coroutine still holds the session dict it looked up; a reset
\* in between has detached that dict from self.sessions.
handle_signal_resume ==
    /\ inflight # None
    /\ LET m == inflight[1].publishing
           strategy_id == m.subject[2]
       IN  IF m.kind = "fill" /\ strategy_id \in DOMAIN sessions
           THEN sessions' =
                    [sessions EXCEPT ![strategy_id] =
                        IF m.payload.action = "BUY" THEN [@ EXCEPT !.total_buys = @ + 1]
                        ELSE [@ EXCEPT !.total_sells = @ + 1]]
           ELSE UNCHANGED sessions
    /\ inflight' = None
    /\ UNCHANGED <<fill_count, current_prices, running, config, fill_id_log>>

----------------------------------------------------------------------------
\* ExecutionSimulator.handle_market_data (src/execution-simulator/main.py:60-74)

\* data.get(key): None when the key is missing
Stored(field) == IF field[1] = "num" THEN field ELSE Null

\* payload is None for bytes that json.loads refuses, Some(bar) otherwise.
handle_market_data(payload) ==
    /\ IF ~running \/ payload = None
       THEN UNCHANGED current_prices
       ELSE LET data == payload[1]
            IN  current_prices' =
                    Put(current_prices, GetStr(data.symbol, "SPY"),
                        [close |-> Stored(data.close), high |-> Stored(data.high),
                         low |-> Stored(data.low)])
    /\ UNCHANGED <<sessions, fill_count, running, config, inflight, fill_id_log>>

----------------------------------------------------------------------------
\* HTTP handlers of the execution simulator.  Each is one synchronous step; the
\* operator <name>_call gives the state it leaves and the body it returns.

\* POST /positions/reset, the route registered in the class body (lines 85-91).
\* It is registered before the module-level route of the same path and method, so
\* it is the one the router dispatches to.  It also sets simulator.positions = {},
\* an attribute that nothing modelled here reads.
reset_positions_class_route_call(ss, fc) ==
    [sessions |-> ss, fill_count |-> 0, body |-> [success |-> TRUE]]

reset_positions_class_route ==
    /\ sessions' = reset_positions_class_route_call(sessions, fill_count).sessions
    /\ fill_count' = reset_positions_class_route_call(sessions, fill_count).fill_count
    /\ UNCHANGED <<current_prices, running, config, inflight, fill_id_log>>

\* reset_positions, the module-level handler (lines 329-335).
reset_positions_call(ss, fc) ==
    [sessions |-> EmptyMap, fill_count |-> 0, body |-> [success |-> TRUE]]

reset_positions ==
    /\ sessions' = reset_positions_call(sessions, fill_count).sessions
    /\ fill_count' = reset_positions_call(sessions, fill_count).fill_count
    /\ UNCHANGED <<current_prices, running, config, inflight, fill_id_log>>

\* reset_session_call deleting every session when it finds the one asked for.
reset_session_call_ClearsAll(ss, session_id) ==
    IF session_id \in DOMAIN ss
    THEN [sessions |-> EmptyMap, body |-> [success |-> TRUE]]
    ELSE [sessions |-> ss, body |-> [success |-> FALSE]]

\* POST /positions/reset/{session_id} (lines 337-344).
reset_session_call(ss, session_id) ==
    IF session_id \in DOMAIN ss
    THEN [sessions |-> Del(ss, session_id), body |-> [success |-> TRUE]]
    ELSE [sessions |-> ss, body |-> [success |-> FALSE]]

reset_session(session_id) ==
    /\ sessions' = reset_session_call(sessions, session_id).sessions
    /\ UNCHANGED <<fill_count, current_prices, running, config, inflight, fill_id_log>>

\* update_config that merges every key except commission.
update_config_call_KeepsCommission(cfg, update) ==
    LET merged == [k \in DOMAIN cfg \cup (DOMAIN update \ {"commission"}) |->
                      IF k \in DOMAIN update \ {"commission"} THEN update[k] ELSE cfg[k]]
    IN  [config |-> merged, body |-> [success |-> TRUE, config |-> merged]]

\* POST /config (lines 314-318): dict.update.
update_config_call(cfg, update) ==
    LET merged == [k \in DOMAIN cfg \cup DOMAIN update |->
                      IF k \in DOMAIN update THEN update[k] ELSE cfg[k]]
    IN  [config |-> merged, body |-> [success |-> TRUE, config |-> merged]]

update_config(update) ==
    /\ config' = update_config_call(config, update).config
    /\ UNCHANGED <<sessions, fill_count, current_prices, running, inflight, fill_id_log>>

----------------------------------------------------------------------------
\* The execution simulator fed signals from `signals`, bars from `bars` and config
\* bodies from `updates`; undecodable payloads are always among the inputs.

SimNext(signals, bars, updates) ==
    /\ \/ \E payload \in Payloads(signals) : handle_signal(payload)
       \/ handle_signal_resume
       \/ \E payload \in Payloads(bars) : handle_market_data(payload)
       \/ reset_positions_class_route
       \/ reset_positions
       \/ \E id \in SessionIds : reset_session(id)
       \/ \E u \in updates : update_config(u)
    /\ UNCHANGED <<stratVars, regVars, engVars>>

\* Every decodable signal payload.
Next == SimNext(Signals, MarketBars, ConfigUpdates)

Spec == Init /\ [][Next]_vars

\* Only signals of the data model (action in {BUY, SELL}, quantity > 0).
NextTrade == SimNext(TradeSignals, MarketBars, ConfigUpdates)

SpecTrade == Init /\ [][NextTrade]_vars

----------------------------------------------------------------------------
\* Readings of the state used by the properties below

Symbols == {"SPY", "QQQ"}

\* the session key and the symbol handle_signal derives from a signal (lines 101-102)
KeyOf(s) == GetStr(s.strategy_id, "unknown")
SymOf(s) == GetStr(s.symbol, "SPY")

\* the ledger entry of (id, sym) in a session map, 0 when there is none
Pos(ss, id, sym) == IF id \in DOMAIN ss THEN PositionOf(ss[id], sym) ELSE 0

\* the fill history of id in a session map, empty when there is no session
FillsOf(ss, id) == IF id \in DOMAIN ss THEN ss[id].fills ELSE << >>

\* the callback is suspended publishing a message of that kind
Publishing(kind) == inflight # None /\ inflight[1].publishing.kind = kind

----------------------------------------------------------------------------
\* C1: under BUY/SELL signals with quantity > 0, interleaved with resets, market
\* data and config updates, every ledger entry of every session is >= 0 in every
\* reachable state.
C1_LedgerNonNegative ==
    \A id \in DOMAIN sessions :
        \A sym \in DOMAIN sessions[id].positions : sessions[id].positions[sym] >= 0

\* A SELL asking for more than the position was filled and left the entry at 0.
C1_Witness ==
    /\ Publishing("fill")
    /\ inflight[1].signal.action = "SELL"
    /\ inflight[1].signal.quantity[2] > inflight[1].publishing.payload.quantity
    /\ Pos(sessions, KeyOf(inflight[1].signal), SymOf(inflight[1].signal)) = 0

\* C2: a SELL signal that reaches simulate_fill while the session's position for
\* the symbol is <= 0 yields no Fill, and the ledger, the fill history and the fill
\* counter are as they were.
C2_Case(s) ==
    /\ running
    /\ ~MissingFields(s)
    /\ s.action = "SELL"
    /\ Pos(sessions, KeyOf(s), SymOf(s)) <= 0

C2_SellWithoutPositionRefused ==
    [][\A s \in Signals :
          (C2_Case(s) /\ handle_signal(Some(s))) =>
              /\ ~Publishing("fill")'
              /\ fill_count' = fill_count
              /\ fill_id_log' = fill_id_log
              /\ FillsOf(sessions', KeyOf(s)) = FillsOf(sessions, KeyOf(s))
              /\ \A id \in SessionIds, sym \in Symbols :
                     Pos(sessions', id, sym) = Pos(sessions, id, sym)]_vars

\* A SELL was refused at position 0 while the counter and a ledger entry were not 0.
C2_Witness ==
    /\ Publishing("rejection")
    /\ inflight[1].signal.action = "SELL"
    /\ fill_count > 0
    /\ \E id \in DOMAIN sessions, sym \in Symbols : Pos(sessions, id, sym) > 0

\* C3: a SELL signal whose quantity exceeds a positive current position produces a
\* Fill whose quantity is the current position and whose position_after is 0.
C3_Case(s) ==
    /\ running
    /\ s.action = "SELL"
    /\ Pos(sessions, KeyOf(s), SymOf(s)) > 0
    /\ s.quantity[2] > Pos(sessions, KeyOf(s), SymOf(s))

C3_OversizedSellIsClamped ==
    [][\A s \in TradeSignals :
          (C3_Case(s) /\ handle_signal(Some(s))) =>
              /\ Publishing("fill")'
              /\ inflight'[1].publishing.payload.quantity
                     = Pos(sessions, KeyOf(s), SymOf(s))
              /\ inflight'[1].publishing.payload.position_after = 0
              /\ Pos(sessions', KeyOf(s), SymOf(s)) = 0]_vars

\* A SELL of MaxQty was filled with a smaller quantity.
C3_Witness ==
    /\ Publishing("fill")
    /\ inflight[1].signal.action = "SELL"
    /\ inflight[1].signal.quantity[2] = MaxQty
    /\ inflight[1].publishing.payload.quantity < MaxQty
    /\ inflight[1].publishing.payload.position_after = 0

\* C4: every accepted fill updates exactly the ledger entry of the signal's session
\* and symbol: old + quantity for BUY, old - (post-clamp) quantity for SELL; the
\* Fill's position_after is the entry right after the update.
C4_PostClamp(s, old) == IF s.quantity[2] > old THEN old ELSE s.quantity[2]

C4_FillUpdatesOneEntry ==
    [][Publishing("fill")' =>
        \A s \in Signals :
          handle_signal(Some(s)) =>
              LET fill == inflight'[1].publishing.payload
                  old == Pos(sessions, KeyOf(s), SymOf(s))
                  new == Pos(sessions', KeyOf(s), SymOf(s))
              IN  /\ s.action = "BUY" => (fill.quantity = s.quantity[2] /\ new = old + fill.quantity)
                  /\ s.action = "SELL" => (fill.quantity = C4_PostClamp(s, old)
                                            /\ new = old - fill.quantity)
                  /\ fill.position_after = new
                  /\ \A id \in SessionIds, sym \in Symbols :
                         <<id, sym>> # <<KeyOf(s), SymOf(s)>> =>
                             Pos(sessions', id, sym) = Pos(sessions, id, sym)]_vars

\* A signal of session "unknown" was filled while session "s1" held a position.
C4_Witness ==
    /\ Publishing("fill")
    /\ KeyOf(inflight[1].signal) = "unknown"
    /\ Pos(sessions, "unknown", "SPY") > 0
    /\ \E id \in DOMAIN sessions, sym \in Symbols :
           /\ <<id, sym>> # <<KeyOf(inflight[1].signal), SymOf(inflight[1].signal)>>
           /\ Pos(sessions, id, sym) > 0

\* C5: every Fill gets a fill_id strictly greater than that of every Fill produced
\* before it, process-wide, across resets: no two Fills share a fill_id.
C5_FillIdsStrictlyIncrease ==
    \A i \in DOMAIN fill_id_log, j \in DOMAIN fill_id_log :
        i < j => fill_id_log[i] < fill_id_log[j]

\* C6: once the reset-all operation has completed no session remains.
C6_ResetAllLeavesNoSession ==
    [][(reset_positions_class_route \/ reset_positions) => sessions' = EmptyMap]_vars

----------------------------------------------------------------------------
\* BaseStrategy (strategies/base_strategy.py).  The file is not among the sources:
\* the price window and the moving averages follow the design's IndicatorWindow
\* (push, sma, ema) and its Signal record.
\*
\* Closes are whole dollars.  A moving average is the exact fraction <<n, d>>, d > 0.

Max(a, b) == IF a >= b THEN a ELSE b

RECURSIVE SumSeq(_)
SumSeq(q) == IF q = << >> THEN 0 ELSE q[1] + SumSeq(Tail(q))

\* the last n elements of q (Python: q[-n:]), 0 < n
LastN(q, n) == SubSeq(q, Max(1, Len(q) - n + 1), Len(q))

\* push(price): appends, evicts the oldest beyond max_history_size
update_history(self, price) ==
    [self EXCEPT !.bars_history = LastN(Append(self.bars_history, price),
                                        self.max_history_size)]

\* sma(period): the average of the last `period` prices, None when not ready
get_sma(self, period) ==
    IF Len(self.bars_history) < period THEN None
    ELSE Some(<<SumSeq(LastN(self.bars_history, period)), period>>)

\* The EMA of h[1..n], alpha = 2 / (period + 1), seeded by the SMA of h[1..period].
RECURSIVE EmaUpTo(_, _, _)
EmaUpTo(h, period, n) ==
    IF n = period THEN <<SumSeq(SubSeq(h, 1, period)), period>>
    ELSE LET e == EmaUpTo(h, period, n - 1)
         IN  <<2 * h[n] * e[2] + (period - 1) * e[1], (period + 1) * e[2]>>

\* ema(period): recomputed from the stored window, None when not ready
get_ema(self, period) ==
    IF Len(self.bars_history) < period THEN None
    ELSE Some(EmaUpTo(self.bars_history, period, Len(self.bars_history)))

\* The Signal a strategy emits for a bar.  confidence is in hundredths.
create_signal(self, action, bar, quantity, confidence) ==
    [strategy_id |-> self.strategy_id, symbol |-> self.symbol, action |-> action,
     quantity |-> quantity, price |-> bar.close, confidence |-> confidence]

\* a > b for fractions with positive denominators
FracGreater(a, b) == a[1] * b[2] > b[1] * a[2]
FracEqual(a, b) == a[1] * b[2] = b[1] * a[2]

\* the sum of the rises (falls) between consecutive prices of w
RECURSIVE GainSum(_)
GainSum(w) ==
    IF Len(w) < 2 THEN 0 ELSE Max(w[2] - w[1], 0) + GainSum(Tail(w))

RECURSIVE LossSum(_)
LossSum(w) ==
    IF Len(w) < 2 THEN 0 ELSE Max(w[1] - w[2], 0) + LossSum(Tail(w))

\* rsi(period) over the last period + 1 prices, None when not ready: with the
\* simple averages avgGain = G / period and avgLoss = L / period,
\* 100 - 100 / (1 + avgGain / avgLoss) is the fraction 100 * G / (G + L), and the
\* RSI is 100 when avgLoss = 0.
get_rsi(self, period) ==
    IF Len(self.bars_history) < period + 1 THEN None
    ELSE LET w == LastN(self.bars_history, period + 1)
         IN  Some(IF LossSum(w) = 0 THEN <<100, 1>>
                  ELSE <<100 * GainSum(w), GainSum(w) + LossSum(w)>>)

----------------------------------------------------------------------------
\* Inputs of the strategies

\* Bars handed to process_bar: a close of 10 or 20 dollars, or no close key.
StrategyBars == { [close |-> Num(10)], [close |-> Num(20)], [close |-> Absent] }

\* Parameter maps of a load request for buy_hold.
BuyHoldParams ==
    { [symbol |-> sy, quantity |-> q] : sy \in {KeyAbsent, "QQQ"}, q \in {Absent, Num(MaxQty)} }

\* Parameter maps of a load request for ma_cross: every pair of periods up to
\* MaxPeriod (fast >= slow included), both MA types, the defaults, and a bad type.
MACrossParams ==
    { [symbol |-> KeyAbsent, quantity |-> q, fast_period |-> Num(f),
       slow_period |-> Num(sl), ma_type |-> t] :
          q \in {Absent, Num(MaxQty)}, f \in 1..MaxPeriod, sl \in 1..MaxPeriod,
          t \in {KeyAbsent, "EMA"} }
    \cup { [symbol |-> KeyAbsent, quantity |-> Absent, fast_period |-> Absent,
            slow_period |-> Absent, ma_type |-> KeyAbsent],
           [symbol |-> KeyAbsent, quantity |-> Absent, fast_period |-> Num(1),
            slow_period |-> Num(2), ma_type |-> "wma"] }

\* str.lower() on the strings the parameter maps carry
Lower(str) == IF str = "EMA" THEN "ema" ELSE IF str = "SMA" THEN "sma" ELSE str

----------------------------------------------------------------------------
\* BuyAndHoldStrategy (src/strategy-engine/strategies/buy_and_hold.py)

\* __init__ followed by initialize(strategy_id, params)        (lines 31-40)
BuyAndHold_initialize(strategy_id, params) ==
    Some([kind |-> "buy_hold", strategy_id |-> strategy_id, params |-> params,
          has_bought |-> FALSE,
          symbol |-> GetStr(params.symbol, "SPY"),
          quantity |-> GetNum(params.quantity, Num(100))])

\* process_bar without line 54: has_bought is never set.
BuyAndHold_process_bar_NeverMarks(self, bar) ==
    IF ~self.has_bought
    THEN [self |-> self, result |-> Some(create_signal(self, "BUY", bar, self.quantity, 100))]
    ELSE [self |-> self, result |-> None]

\* process_bar(bar): the instance afterwards and the value returned   (lines 42-66)
BuyAndHold_process_bar(self, bar) ==
    IF ~self.has_bought
    THEN [self |-> [self EXCEPT !.has_bought = TRUE],
          result |-> Some(create_signal(self, "BUY", bar, self.quantity, 100))]
    ELSE [self |-> self, result |-> None]

----------------------------------------------------------------------------
\* MACrossoverStrategy (src/strategy-engine/strategies/ma_crossover.py)

\* MACrossover_initialize with > for >= at line 54: equal periods are accepted.
MACrossover_initialize_AllowsEqual(strategy_id, params) ==
    LET fast_period == GetNum(params.fast_period, Num(20))[2]
        slow_period == GetNum(params.slow_period, Num(50))[2]
        ma_type == Lower(GetStr(params.ma_type, "sma"))
    IN  IF fast_period > slow_period THEN None
        ELSE IF ma_type \notin {"sma", "ema"} THEN None
        ELSE Some([kind |-> "ma_cross", strategy_id |-> strategy_id, params |-> params,
                   symbol |-> GetStr(params.symbol, "SPY"),
                   quantity |-> GetNum(params.quantity, Num(100)),
                   fast_period |-> fast_period, slow_period |-> slow_period,
                   ma_type |-> ma_type,
                   max_history_size |-> Max(100, slow_period + 10),
                   bars_history |-> << >>,
                   previous_state |-> None, position |-> None,
                   state |-> [position |-> None, ma_relationship |-> None]])

\* MACrossover_initialize with the window sized to the slow period alone at line 62.
MACrossover_initialize_NoHeadroom(strategy_id, params) ==
    LET fast_period == GetNum(params.fast_period, Num(20))[2]
        slow_period == GetNum(params.slow_period, Num(50))[2]
        ma_type == Lower(GetStr(params.ma_type, "sma"))
    IN  IF fast_period >= slow_period THEN None
        ELSE IF ma_type \notin {"sma", "ema"} THEN None
        ELSE Some([kind |-> "ma_cross", strategy_id |-> strategy_id, params |-> params,
                   symbol |-> GetStr(params.symbol, "SPY"),
                   quantity |-> GetNum(params.quantity, Num(100)),
                   fast_period |-> fast_period, slow_period |-> slow_period,
                   ma_type |-> ma_type,
                   max_history_size |-> slow_period,
                   bars_history |-> << >>,
                   previous_state |-> None, position |-> None,
                   state |-> [position |-> None, ma_relationship |-> None]])

\* __init__ followed by initialize(strategy_id, params); None when initialize
\* raises ValueError                                            (lines 38-68)
MACrossover_initialize(strategy_id, params) ==
    LET fast_period == GetNum(params.fast_period, Num(20))[2]
        slow_period == GetNum(params.slow_period, Num(50))[2]
        ma_type == Lower(GetStr(params.ma_type, "sma"))
    IN  IF fast_period >= slow_period THEN None
        ELSE IF ma_type \notin {"sma", "ema"} THEN None
        ELSE Some([kind |-> "ma_cross", strategy_id |-> strategy_id, params |-> params,
                   symbol |-> GetStr(params.symbol, "SPY"),
                   quantity |-> GetNum(params.quantity, Num(100)),
                   fast_period |-> fast_period, slow_period |-> slow_period,
                   ma_type |-> ma_type,
                   max_history_size |-> Max(100, slow_period + 10),
                   bars_history |-> << >>,
                   previous_state |-> None, position |-> None,
                   state |-> [position |-> None, ma_relationship |-> None]])

\* Lines 90-95: the moving average of the configured type.
MovingAverage(self, period) ==
    IF self.ma_type = "sma" THEN get_sma(self, period) ELSE get_ema(self, period)

\* Line 101: "above" if fast_ma > slow_ma else "below".  Two SMAs are quotients of
\* exact sums, so equal fractions are equal floats.  Two EMAs that are equal as
\* fractions are floats that differ by rounding at most, in a direction the
\* fractions do not determine: tieAbove says whether fast_ma comes out greater.
CurrentState(self, fast_ma, slow_ma, tieAbove) ==
    IF FracGreater(fast_ma, slow_ma) THEN "above"
    ELSE IF self.ma_type = "ema" /\ FracEqual(fast_ma, slow_ma) /\ tieAbove THEN "above"
    ELSE "below"

\* CrossoverAction without the position test of line 128.
CrossoverAction_SellWhenFlat(previous_state, current_state, position) ==
    IF previous_state # None /\ previous_state # Some(current_state)
    THEN IF current_state = "above" /\ position # Some("long") THEN "BUY"
         ELSE IF current_state = "below" THEN "SELL"
         ELSE "NONE"
    ELSE "NONE"

\* CrossoverAction without the `self.previous_state and` of line 106.
CrossoverAction_NoPreviousTest(previous_state, current_state, position) ==
    IF previous_state # Some(current_state)
    THEN IF current_state = "above" /\ position # Some("long") THEN "BUY"
         ELSE IF current_state = "below" /\ position = Some("long") THEN "SELL"
         ELSE "NONE"
    ELSE "NONE"

\* Lines 106-128: what the bar triggers, "NONE" when nothing.
CrossoverAction(previous_state, current_state, position) ==
    IF previous_state # None /\ previous_state # Some(current_state)
    THEN IF current_state = "above" /\ position # Some("long") THEN "BUY"
         ELSE IF current_state = "below" /\ position = Some("long") THEN "SELL"
         ELSE "NONE"
    ELSE "NONE"

\* process_bar(bar): the instance afterwards and the value returned  (lines 70-156).
\* self.state["fast_ma"] and ["slow_ma"] (the rounded averages, read by the status
\* report only) are not represented.
MACrossover_process_bar(self, bar, tieAbove) ==
    LET close_price == GetNum(bar.close, Num(0))[2]
        pushed == update_history(self, close_price)
        fast_ma == MovingAverage(pushed, pushed.fast_period)
        slow_ma == MovingAverage(pushed, pushed.slow_period)
    IN  IF Len(pushed.bars_history) < pushed.slow_period
        THEN [self |-> pushed, result |-> None]
        ELSE IF fast_ma = None \/ slow_ma = None
        THEN [self |-> pushed, result |-> None]
        ELSE
          LET current_state == CurrentState(pushed, fast_ma[1], slow_ma[1], tieAbove)
              action == CrossoverAction(pushed.previous_state, current_state, pushed.position)
              position == IF action = "BUY" THEN Some("long")
                          ELSE IF action = "SELL" THEN None
                          ELSE pushed.position
              signal == IF action = "NONE" THEN None
                        ELSE Some(create_signal(pushed, action, bar, pushed.quantity, 85))
          IN  [self |-> [pushed EXCEPT !.position = position,
                                       !.previous_state = Some(current_state),
                                       !.state = [position |-> position,
                                                  ma_relationship |-> Some(current_state)]],
               result |-> signal]

----------------------------------------------------------------------------
\* RSIStrategy (src/strategy-engine/strategies/rsi_strategy.py)
\*
\* An RSI reading is <<n, d, skew>>: the float get_rsi returned is the fraction
\* n / d up to rounding.  The rounding decides a comparison only when n / d equals
\* the threshold it is compared with: skew is then -1 (the float is just below),
\* 0 (it is the threshold) or 1 (just above), and 0 in every other case.

\* Parameter maps of a load request for rsi: periods from 2 to MaxPeriod with the
\* thresholds 30/70 (the defaults), 50/70 and 30/50 in both modes, the all-default
\* map, and two refused maps (period 1, thresholds 70/30).  use_confirmation is 1
\* for true and 0 for false.
RSIParamsOf(p, oversold, overbought, c) ==
    [symbol |-> KeyAbsent, quantity |-> Num(MaxQty), rsi_period |-> p,
     oversold_threshold |-> oversold, overbought_threshold |-> overbought,
     use_confirmation |-> c]

RSIParams ==
    { RSIParamsOf(Num(n), th[1], th[2], c) :
          n \in 2..MaxPeriod,
          th \in {<<Absent, Absent>>, <<Num(50), Absent>>, <<Absent, Num(50)>>},
          c \in {Absent, Num(0)} }
    \cup { RSIParamsOf(Absent, Absent, Absent, Absent),
           RSIParamsOf(Num(1), Absent, Absent, Absent),
           RSIParamsOf(Num(2), Num(70), Num(30), Absent) }

\* RSI_initialize with <= for < at the two ends of line 62: thresholds of 0 and
\* 100 are accepted.
RSI_initialize_AllowsBounds(strategy_id, params) ==
    LET rsi_period == GetNum(params.rsi_period, Num(14))[2]
        oversold_threshold == GetNum(params.oversold_threshold, Num(30))[2]
        overbought_threshold == GetNum(params.overbought_threshold, Num(70))[2]
    IN  IF ~(0 <= oversold_threshold /\ oversold_threshold < overbought_threshold
                /\ overbought_threshold <= 100)
        THEN None
        ELSE IF rsi_period < 2 THEN None
        ELSE Some([kind |-> "rsi", strategy_id |-> strategy_id, params |-> params,
                   symbol |-> GetStr(params.symbol, "SPY"),
                   quantity |-> GetNum(params.quantity, Num(100)),
                   rsi_period |-> rsi_period,
                   oversold_threshold |-> oversold_threshold,
                   overbought_threshold |-> overbought_threshold,
                   use_confirmation |-> Truthy(GetNum(params.use_confirmation, Num(1))),
                   max_history_size |-> Max(100, rsi_period + 20),
                   bars_history |-> << >>,
                   position |-> None, last_rsi |-> None,
                   in_oversold_zone |-> FALSE, in_overbought_zone |-> FALSE,
                   state |-> [rsi |-> None, position |-> None,
                              in_oversold_zone |-> FALSE, in_overbought_zone |-> FALSE]])

\* __init__ followed by initialize(strategy_id, params); None when initialize
\* raises ValueError                                            (lines 43-83)
RSI_initialize(strategy_id, params) ==
    LET rsi_period == GetNum(params.rsi_period, Num(14))[2]
        oversold_threshold == GetNum(params.oversold_threshold, Num(30))[2]
        overbought_threshold == GetNum(params.overbought_threshold, Num(70))[2]
    IN  IF ~(0 < oversold_threshold /\ oversold_threshold < overbought_threshold
                /\ overbought_threshold < 100)
        THEN None
        ELSE IF rsi_period < 2 THEN None
        ELSE Some([kind |-> "rsi", strategy_id |-> strategy_id, params |-> params,
                   symbol |-> GetStr(params.symbol, "SPY"),
                   quantity |-> GetNum(params.quantity, Num(100)),
                   rsi_period |-> rsi_period,
                   oversold_threshold |-> oversold_threshold,
                   overbought_threshold |-> overbought_threshold,
                   use_confirmation |-> Truthy(GetNum(params.use_confirmation, Num(1))),
                   max_history_size |-> Max(100, rsi_period + 20),
                   bars_history |-> << >>,
                   position |-> None, last_rsi |-> None,
                   in_oversold_zone |-> FALSE, in_overbought_zone |-> FALSE,
                   state |-> [rsi |-> None, position |-> None,
                              in_oversold_zone |-> FALSE, in_overbought_zone |-> FALSE]])

\* rsi < threshold, rsi > threshold on a reading
RsiBelow(rsi, threshold) ==
    \/ rsi[1] < threshold * rsi[2]
    \/ rsi[1] = threshold * rsi[2] /\ rsi[3] < 0

RsiAbove(rsi, threshold) ==
    \/ rsi[1] > threshold * rsi[2]
    \/ rsi[1] = threshold * rsi[2] /\ rsi[3] > 0

\* Line 105: the reading of this bar, None when get_rsi is not ready.
CurrentRsi(self, rounding) ==
    LET exact == get_rsi(self, self.rsi_period)
    IN  IF exact = None THEN None
        ELSE LET n == exact[1][1]
                 d == exact[1][2]
                 tie == n = self.oversold_threshold * d \/ n = self.overbought_threshold * d
             IN  Some(<<n, d, IF tie THEN rounding ELSE 0>>)

\* ConfirmationAction without the in_oversold_zone test of line 148.
ConfirmationAction_NoDipNeeded(self, current_rsi) ==
    IF /\ RsiAbove(current_rsi, self.oversold_threshold)
       /\ self.position # Some("long")
    THEN "BUY"
    ELSE IF /\ self.in_overbought_zone
            /\ RsiBelow(current_rsi, self.overbought_threshold)
            /\ self.position = Some("long")
    THEN "SELL"
    ELSE "NONE"

\* ConfirmationAction without the in_overbought_zone test of line 168.
ConfirmationAction_NoPeakNeeded(self, current_rsi) ==
    IF /\ self.in_oversold_zone
       /\ RsiAbove(current_rsi, self.oversold_threshold)
       /\ self.position # Some("long")
    THEN "BUY"
    ELSE IF /\ RsiBelow(current_rsi, self.overbought_threshold)
            /\ self.position = Some("long")
    THEN "SELL"
    ELSE "NONE"

\* Lines 147-187 (_check_confirmation_signals): what the bar triggers.
ConfirmationAction(self, current_rsi) ==
    IF /\ self.in_oversold_zone
       /\ RsiAbove(current_rsi, self.oversold_threshold)
       /\ self.position # Some("long")
    THEN "BUY"
    ELSE IF /\ self.in_overbought_zone
            /\ RsiBelow(current_rsi, self.overbought_threshold)
            /\ self.position = Some("long")
    THEN "SELL"
    ELSE "NONE"

\* ImmediateAction without the position tests of lines 204 and 223.
ImmediateAction_IgnoresPosition(self, current_rsi) ==
    IF /\ RsiBelow(current_rsi, self.oversold_threshold)
       /\ \/ self.last_rsi = None
          \/ ~RsiBelow(self.last_rsi[1], self.oversold_threshold)
    THEN "BUY"
    ELSE IF /\ RsiAbove(current_rsi, self.overbought_threshold)
            /\ \/ self.last_rsi = None
               \/ ~RsiAbove(self.last_rsi[1], self.overbought_threshold)
    THEN "SELL"
    ELSE "NONE"

\* Lines 201-239 (_check_immediate_signals): what the bar triggers.
ImmediateAction(self, current_rsi) ==
    IF /\ RsiBelow(current_rsi, self.oversold_threshold)
       /\ (self.last_rsi = None \/ ~RsiBelow(self.last_rsi[1], self.oversold_threshold))
       /\ self.position # Some("long")
    THEN "BUY"
    ELSE IF /\ RsiAbove(current_rsi, self.overbought_threshold)
            /\ (self.last_rsi = None \/ ~RsiAbove(self.last_rsi[1], self.overbought_threshold))
            /\ self.position = Some("long")
    THEN "SELL"
    ELSE "NONE"

\* process_bar(bar): the instance afterwards, the value returned and the reading
\* of the bar (lines 85-133).  self.state["rsi"] holds the reading, not its
\* rounding to two decimals.
RSI_process_bar(self, bar, rounding) ==
    LET close_price == GetNum(bar.close, Num(0))[2]
        pushed == update_history(self, close_price)
        reading == CurrentRsi(pushed, rounding)
    IN  IF Len(pushed.bars_history) < pushed.rsi_period + 1
        THEN [self |-> pushed, result |-> None, rsi |-> None]
        ELSE IF reading = None
        THEN [self |-> pushed, result |-> None, rsi |-> None]
        ELSE
          LET current_rsi == reading[1]
              tracked == [pushed EXCEPT
                             !.in_oversold_zone =
                                 @ \/ RsiBelow(current_rsi, pushed.oversold_threshold),
                             !.in_overbought_zone =
                                 @ \/ RsiAbove(current_rsi, pushed.overbought_threshold)]
              action == IF tracked.use_confirmation
                        THEN ConfirmationAction(tracked, current_rsi)
                        ELSE ImmediateAction(tracked, current_rsi)
              position == IF action = "BUY" THEN Some("long")
                          ELSE IF action = "SELL" THEN None
                          ELSE tracked.position
              in_oversold_zone == IF tracked.use_confirmation /\ action = "BUY" THEN FALSE
                                  ELSE tracked.in_oversold_zone
              in_overbought_zone == IF tracked.use_confirmation /\ action = "SELL" THEN FALSE
                                    ELSE tracked.in_overbought_zone
              signal == IF action = "NONE" THEN None
                        ELSE Some(create_signal(tracked, action, bar, tracked.quantity,
                                                IF tracked.use_confirmation THEN 80 ELSE 75))
          IN  [self |-> [tracked EXCEPT
                            !.position = position,
                            !.in_oversold_zone = in_oversold_zone,
                            !.in_overbought_zone = in_overbought_zone,
                            !.last_rsi = reading,
                            !.state = [rsi |-> reading, position |-> position,
                                       in_oversold_zone |-> in_oversold_zone,
                                       in_overbought_zone |-> in_overbought_zone]],
               result |-> signal,
               rsi |-> reading]

----------------------------------------------------------------------------
\* StrategyRegistry.create_strategy and the calls the engine makes on an instance

StrategyNames == {"buy_hold", "ma_cross", "no_such_strategy"}
Registered == {"buy_hold", "ma_cross", "rsi"}

ParamsOf(strategy_name) ==
    IF strategy_name = "ma_cross" THEN MACrossParams
    ELSE IF strategy_name = "rsi" THEN RSIParams
    ELSE BuyHoldParams

\* strategy_class() then initialize(strategy_id, params): None when it raises
NewInstance(strategy_name, strategy_id, params) ==
    IF strategy_name \notin Registered THEN None
    ELSE IF strategy_name = "buy_hold" THEN BuyAndHold_initialize(strategy_id, params)
    ELSE IF strategy_name = "rsi" THEN RSI_initialize(strategy_id, params)
    ELSE MACrossover_initialize(strategy_id, params)

\* create_strategy (strategy_registry.py:123-154): an unknown name or a refused
\* parameter map raises ValueError and no instance replaces the current one.
create_strategy(strategy_name, strategy_id, params) ==
    LET instance == NewInstance(strategy_name, strategy_id, params)
    IN  /\ IF instance = None
           THEN UNCHANGED stratVars
           ELSE /\ strategy' = instance
                /\ returned' = << >>
                /\ rsi_log' = << >>
                /\ fed' = << >>
                /\ delivered' = 0
        /\ UNCHANGED <<simVars, regVars, engVars>>

\* How a float comparison that is an exact tie of the fractions falls: the left
\* side comes out smaller (-1), equal (0) or greater (1).
Roundings == {-1, 0, 1}

\* The two ways the EMA comparison of an MA crossover instance can fall at a tie:
\* not above (0) or above (1).
TieRoundings == {0, 1}

\* strategy_instance.process_bar(bar)  (strategy-engine/main.py:111)
process_bar_within(limit, bar, rounding) ==
    /\ strategy # None
    /\ Len(returned) < limit
    /\ LET self == strategy[1]
           call == IF self.kind = "buy_hold" THEN BuyAndHold_process_bar(self, bar)
                   ELSE IF self.kind = "rsi" THEN RSI_process_bar(self, bar, rounding)
                   ELSE MACrossover_process_bar(self, bar, rounding > 0)
       IN  /\ strategy' = Some(call.self)
           /\ returned' = Append(returned, call.result)
           /\ rsi_log' = Append(rsi_log, IF self.kind = "rsi" THEN call.rsi ELSE None)
           /\ fed' = Append(fed, bar)
    /\ UNCHANGED <<delivered, simVars, regVars, engVars>>

\* the calls of a run of at most MaxBars bars
process_bar(bar, rounding) == process_bar_within(MaxBars, bar, rounding)

\* BuyAndHoldStrategy.on_start, on_stop (buy_and_hold.py:68-77): print only.
BuyAndHold_on_start(self) == self
BuyAndHold_on_stop(self) == self

\* MACrossoverStrategy.on_start (ma_crossover.py:158-163): prints only.
MACrossover_on_start(self) == self

\* on_stop forgetting the position it reports.
MACrossover_on_stop_ClearsPosition(self) == [self EXCEPT !.position = None]

\* MACrossoverStrategy.on_stop (ma_crossover.py:165-171): prints the position and
\* the last moving averages.
MACrossover_on_stop(self) == self

\* RSIStrategy.on_start, on_stop (rsi_strategy.py:241-256): print only.
RSI_on_start(self) == self
RSI_on_stop(self) == self

\* strategy_instance.on_start() on an instance of any class (main.py:92)
InstanceOnStart(self) ==
    IF self.kind = "buy_hold" THEN BuyAndHold_on_start(self)
    ELSE IF self.kind = "rsi" THEN RSI_on_start(self)
    ELSE IF self.kind = "ma_cross" THEN MACrossover_on_start(self)
    ELSE self

\* strategy_instance.on_stop() on an instance of any class (main.py:393)
InstanceOnStop(self) ==
    IF self.kind = "buy_hold" THEN BuyAndHold_on_stop(self)
    ELSE IF self.kind = "rsi" THEN RSI_on_stop(self)
    ELSE IF self.kind = "ma_cross" THEN MACrossover_on_stop(self)
    ELSE self

on_start ==
    /\ strategy # None
    /\ strategy' = Some(InstanceOnStart(strategy[1]))
    /\ UNCHANGED <<returned, rsi_log, fed, delivered, simVars, regVars, engVars>>

on_stop ==
    /\ strategy # None
    /\ strategy' = Some(InstanceOnStop(strategy[1]))
    /\ UNCHANGED <<returned, rsi_log, fed, delivered, simVars, regVars, engVars>>

StrategyNext ==
    \/ \E name \in StrategyNames : \E params \in ParamsOf(name) :
           create_strategy(name, "s1", params)
    \/ \E bar \in StrategyBars, rounding \in TieRoundings : process_bar(bar, rounding)
    \/ on_start
    \/ on_stop

SpecStrategy == Init /\ [][StrategyNext]_vars

\* The engine running an rsi instance.
RSINext ==
    \/ \E params \in RSIParams : create_strategy("rsi", "s1", params)
    \/ \E bar \in StrategyBars, rounding \in Roundings : process_bar(bar, rounding)
    \/ on_start
    \/ on_stop

SpecRSI == Init /\ [][RSINext]_vars

----------------------------------------------------------------------------
\* Readings of a strategy instance used by the properties below

IsKind(kind) == strategy # None /\ strategy[1].kind = kind
IsSignal(result, action) == result # None /\ result[1].action = action

\* the instance after its first n bars had been pushed (the window holds every bar
\* fed so far while fewer than max_history_size were fed)
AfterBars(self, n) == [self EXCEPT !.bars_history = SubSeq(self.bars_history, 1, n)]

\* both moving averages exist after the first n bars
Computable(self, n) ==
    /\ MovingAverage(AfterBars(self, n), self.fast_period) # None
    /\ MovingAverage(AfterBars(self, n), self.slow_period) # None

\* C7: a buy-and-hold instance returns a BUY of the configured quantity from the
\* first process_bar call after initialize and no signal from every later call, so
\* any n >= 1 calls return exactly one signal.
C7_BuyHoldSingleBuy ==
    (IsKind("buy_hold") /\ Len(returned) >= 1) =>
        /\ IsSignal(returned[1], "BUY")
        /\ returned[1][1].quantity = GetNum(strategy[1].params.quantity, Num(100))
        /\ \A i \in 2..Len(returned) : returned[i] = None
        /\ Cardinality({i \in DOMAIN returned : returned[i] # None}) = 1

\* A buy-and-hold instance configured with a quantity has processed three bars.
C7_Witness ==
    /\ IsKind("buy_hold")
    /\ strategy[1].params.quantity = Num(MaxQty)
    /\ Len(returned) >= 3

C9_NoSignalBeforeSecondState ==
    IsKind("ma_cross") =>
        \A i \in DOMAIN returned :
            (\/ i <= strategy[1].slow_period - 1
             \/ (Computable(strategy[1], i) /\ \A k \in 1..(i - 1) : ~Computable(strategy[1], k)))
                => returned[i] = None

\* The first computable state of an MA crossover instance was "above".
C9_Witness ==
    /\ IsKind("ma_cross")
    /\ Len(returned) = strategy[1].slow_period
    /\ Computable(strategy[1], Len(returned))
    /\ strategy[1].previous_state = Some("above")

\* the closes of the scenario
ScenarioCloses == <<10, 10, 10, 20, 20, 20>>

\* C10: an ma_cross instance with fast_period 2, slow_period 3 (SMA) fed the closes
\* 10, 10, 10, 20, 20, 20 has its first computable state at bar 3 and returns no
\* signal there, returns a BUY at bar 4, and returns a signal at bar 4 only.
C10_ScenarioBuyAtBar4Only ==
    (/\ IsKind("ma_cross")
     /\ strategy[1].fast_period = 2 /\ strategy[1].slow_period = 3
     /\ strategy[1].ma_type = "sma"
     /\ Len(returned) <= Len(ScenarioCloses)
     /\ strategy[1].bars_history = SubSeq(ScenarioCloses, 1, Len(returned))) =>
        /\ (strategy[1].previous_state # None) <=> (Len(returned) >= 3)
        /\ \A i \in DOMAIN returned :
              /\ i = 4 => IsSignal(returned[i], "BUY")
              /\ i # 4 => returned[i] = None

----------------------------------------------------------------------------
\* Readings of an rsi instance and of its logs

IsRSI(confirmation) ==
    IsKind("rsi") /\ strategy[1].use_confirmation = confirmation

\* bar j had a reading below, above the threshold
ReadBelow(j, threshold) == rsi_log[j] # None /\ RsiBelow(rsi_log[j][1], threshold)
ReadAbove(j, threshold) == rsi_log[j] # None /\ RsiAbove(rsi_log[j][1], threshold)

\* the instance was long when bar j arrived: its last signal before j was a BUY
LongBefore(j) ==
    \E i \in 1..(j - 1) :
        /\ IsSignal(returned[i], "BUY")
        /\ \A k \in (i + 1)..(j - 1) : ~IsSignal(returned[k], "SELL")

\* a bar before j dipped below oversold_threshold and no BUY came since
DippedBefore(j) ==
    \E i \in 1..(j - 1) :
        /\ ReadBelow(i, strategy[1].oversold_threshold)
        /\ \A k \in i..(j - 1) : ~IsSignal(returned[k], "BUY")

\* C11: in confirmation mode a BUY is returned on exactly the bars whose RSI is
\* above oversold_threshold, that come after a dip below it not yet answered by a
\* BUY, while the instance is not long: one BUY per dip, on the first such bar;
\* never on a bar whose RSI is below the threshold; and the BUY clears in_oversold.
C11_BuyOnRecoveryOnly ==
    IsRSI(TRUE) =>
        /\ \A j \in DOMAIN returned :
              /\ IsSignal(returned[j], "BUY") <=>
                    /\ ReadAbove(j, strategy[1].oversold_threshold)
                    /\ DippedBefore(j)
                    /\ ~LongBefore(j)
              /\ IsSignal(returned[j], "BUY") =>
                    ~ReadBelow(j, strategy[1].oversold_threshold)
        /\ (returned # << >> /\ IsSignal(returned[Len(returned)], "BUY")) =>
              ~strategy[1].in_oversold_zone

\* After a dip the RSI stayed at or below the threshold for a bar, then recovered
\* and the BUY came on the recovery bar.
C11_Witness ==
    /\ IsRSI(TRUE)
    /\ \E i, j \in DOMAIN returned :
          /\ i + 1 < j
          /\ ReadBelow(i, strategy[1].oversold_threshold)
          /\ \A k \in i..(j - 1) : returned[k] = None
          /\ IsSignal(returned[j], "BUY")

\* C12: in confirmation mode a SELL is returned on a bar exactly when in_overbought
\* is true, the bar's RSI is below overbought_threshold, the instance is long and
\* no BUY fires on that bar; the SELL clears in_overbought and the long position.
C12_SellOnReversalOnly ==
    [][\A bar \in StrategyBars, rounding \in Roundings :
          (/\ IsRSI(TRUE)
           /\ Len(returned') = Len(returned) + 1
           /\ process_bar(bar, rounding)) =>
              LET self == strategy[1]
                  after == strategy'[1]
                  result == returned'[Len(returned')]
                  reading == rsi_log'[Len(rsi_log')]
              IN  /\ IsSignal(result, "SELL") <=>
                        /\ reading # None
                        /\ self.in_overbought_zone
                        /\ RsiBelow(reading[1], self.overbought_threshold)
                        /\ self.position = Some("long")
                        /\ ~IsSignal(result, "BUY")
                  /\ IsSignal(result, "SELL") =>
                        /\ ~after.in_overbought_zone
                        /\ after.position = None]_vars

\* A SELL was returned on the bar right after the BUY: in_overbought had been set
\* before the instance went long.
C12_Witness ==
    /\ IsRSI(TRUE)
    /\ \E j \in DOMAIN returned :
          /\ j > 1
          /\ IsSignal(returned[j - 1], "BUY")
          /\ IsSignal(returned[j], "SELL")
          /\ ~strategy[1].in_overbought_zone

\* C13 as stated: in immediate mode a BUY is returned only on a bar whose RSI is
\* below oversold_threshold and whose previous bar's RSI was >= oversold_threshold,
\* while not long; a SELL only on a bar whose RSI is above overbought_threshold and
\* whose previous bar's RSI was not above it, while long.
C13_ImmediateOnlyOnCrossing ==
    IsRSI(FALSE) =>
        \A j \in DOMAIN returned :
            /\ IsSignal(returned[j], "BUY") =>
                  /\ ReadBelow(j, strategy[1].oversold_threshold)
                  /\ j > 1 /\ rsi_log[j - 1] # None
                  /\ ~RsiBelow(rsi_log[j - 1][1], strategy[1].oversold_threshold)
                  /\ ~LongBefore(j)
            /\ IsSignal(returned[j], "SELL") =>
                  /\ ReadAbove(j, strategy[1].overbought_threshold)
                  /\ j > 1 /\ rsi_log[j - 1] # None
                  /\ ~RsiAbove(rsi_log[j - 1][1], strategy[1].overbought_threshold)
                  /\ LongBefore(j)

\* C13 amended: as stated, except that a BUY is also returned on the first bar that
\* has an RSI at all when that RSI is below oversold_threshold (there is no previous
\* RSI to compare with).
C13_ImmediateOnCrossingOrFirst ==
    IsRSI(FALSE) =>
        \A j \in DOMAIN returned :
            /\ IsSignal(returned[j], "BUY") =>
                  /\ ReadBelow(j, strategy[1].oversold_threshold)
                  /\ \/ \A i \in 1..(j - 1) : rsi_log[i] = None
                     \/ /\ j > 1 /\ rsi_log[j - 1] # None
                        /\ ~RsiBelow(rsi_log[j - 1][1], strategy[1].oversold_threshold)
                  /\ ~LongBefore(j)
            /\ IsSignal(returned[j], "SELL") =>
                  /\ ReadAbove(j, strategy[1].overbought_threshold)
                  /\ j > 1 /\ rsi_log[j - 1] # None
                  /\ ~RsiAbove(rsi_log[j - 1][1], strategy[1].overbought_threshold)
                  /\ LongBefore(j)

\* In immediate mode a BUY came on the first bar that had an RSI, and a SELL later.
C13_Witness ==
    /\ IsRSI(FALSE)
    /\ \E i, j \in DOMAIN returned :
          /\ i < j
          /\ IsSignal(returned[i], "BUY")
          /\ \A k \in 1..(i - 1) : rsi_log[k] = None
          /\ IsSignal(returned[j], "SELL")

----------------------------------------------------------------------------
\* C14: a SELL signal arriving while the session's position for the symbol is 0
\* yields no Fill and one Rejection, published for the signal's strategy_id,
\* carrying the signal as received and the reason "no position to sell".
C14_SellAtZeroRejectedWithReason ==
    [][\A s \in Signals :
          (C2_Case(s) /\ Pos(sessions, KeyOf(s), SymOf(s)) = 0 /\ handle_signal(Some(s))) =>
              /\ ~Publishing("fill")'
              /\ fill_id_log' = fill_id_log
              /\ Publishing("rejection")'
              /\ inflight'[1].publishing.subject = <<"execution.rejections", KeyOf(s)>>
              /\ inflight'[1].publishing.payload.strategy_id = KeyOf(s)
              /\ inflight'[1].publishing.payload.original_signal = s
              /\ inflight'[1].publishing.payload.reason = "no position to sell"]_vars

----------------------------------------------------------------------------
\* Pricing: the simulator fed bars that may lack fields and signals whose price
\* is low, or missing.

\* BUY and SELL of one SPY share for s1, priced at 10 dollars or without a price.
PricedSignals ==
    {Signal("s1", KeyAbsent, a, Num(1), p) :
        a \in {"BUY", "SELL"}, p \in {Num(Dollars(10)), Absent}}

\* Bars for SPY in which each of close, high and low is present or missing.
PricingBars ==
    {[symbol |-> KeyAbsent, close |-> c, high |-> h, low |-> l] :
        c \in {Num(Dollars(200)), Absent},
        h \in {Num(Dollars(201)), Absent},
        l \in {Num(Dollars(199)), Absent}}

NextPricing == SimNext(PricedSignals, PricingBars, ConfigUpdates)

SpecPricing == Init /\ [][NextPricing]_vars

\* The signal is one that simulate_fill does not refuse: a BUY, or a SELL with a
\* position to sell.
Fillable(s) ==
    /\ running
    /\ ~MissingFields(s)
    /\ s.action \in {"BUY", "SELL"}
    /\ s.action = "SELL" => Pos(sessions, KeyOf(s), SymOf(s)) > 0

\* The base price the design's precedence gives a signal: the bar's high (BUY) or
\* low (SELL), else the bar's close, else the signal's price.
PrecedencePrice(s, prices) ==
    LET own == GetNum(s.price, Num(DefaultPrice))
    IN  IF SymOf(s) \notin DOMAIN prices THEN own
        ELSE LET bar == prices[SymOf(s)]
                 first == IF s.action = "BUY" THEN bar.high ELSE bar.low
             IN  IF first[1] = "num" THEN first
                 ELSE IF bar.close[1] = "num" THEN bar.close
                 ELSE own

\* C15: every fill with base_price > 0 and slippage_pct > 0 has, in its reported
\* (rounded) fields, price > base_price for a BUY, price < base_price for a SELL,
\* and |price - base_price| = base_price * slippage_pct / 100 exactly.  (base_price
\* is a whole number of cents, so Percent is exact here.)
C15_SlippageSignAndSize ==
    \A id \in DOMAIN sessions :
        \A i \in DOMAIN sessions[id].fills :
            LET fill == sessions[id].fills[i]
                exact == Percent(fill.base_price, fill.slippage_pct)
            IN  (fill.base_price > 0 /\ fill.slippage_pct > 0) =>
                    /\ fill.action = "BUY" =>
                          fill.price > fill.base_price /\ fill.price - fill.base_price = exact
                    /\ fill.action = "SELL" =>
                          fill.price < fill.base_price /\ fill.base_price - fill.price = exact

\* C16: a signal that simulate_fill does not refuse produces a Fill whose
\* base_price is the bar's high (BUY) or low (SELL) when a bar is known for the
\* symbol and has that field, else the bar's close, else the signal's own price.
C16_BasePricePrecedence ==
    [][\A s \in PricedSignals :
          (Fillable(s) /\ handle_signal(Some(s))) =>
              /\ Publishing("fill")'
              /\ inflight'[1].publishing.payload.base_price
                     \in Round2(PrecedencePrice(s, current_prices)[2])]_vars

\* C17: every signal that parses and carries an action in {BUY, SELL} and a
\* quantity > 0 leads to one published outcome for its strategy_id, a Fill or a
\* Rejection.
C17_OneOutcomePerSignal ==
    [][\A s \in PricedSignals \cup TradeSignals :
          (running /\ handle_signal(Some(s))) =>
              /\ Publishing("fill")' \/ Publishing("rejection")'
              /\ inflight'[1].publishing.subject[2] = KeyOf(s)
              /\ inflight'[1].signal = s]_vars

----------------------------------------------------------------------------
\* Sessions

\* a step that is neither the arrival of a decodable signal nor a reset
OtherStep ==
    \/ handle_signal(None)
    \/ handle_signal_resume
    \/ \E payload \in Payloads(MarketBars) : handle_market_data(payload)
    \/ \E u \in ConfigUpdates : update_config(u)

\* C18: a session exists for a strategy_id exactly when a signal for it has been
\* received since the last reset that covered it: a signal adds the session of its
\* strategy_id, a single-session reset removes that session, reset-all removes
\* every session, and nothing else adds or removes one.  A session is created
\* with an empty ledger and an empty fill history (so after its first signal it
\* holds that signal's fill at most), and a signal for one strategy_id leaves the
\* ledger and the fill history of every other session as they were.
C18_SessionLifecycle ==
    [][ /\ \A s \in Signals :
              handle_signal(Some(s)) =>
                  /\ DOMAIN sessions' = DOMAIN sessions \cup {KeyOf(s)}
                  /\ KeyOf(s) \notin DOMAIN sessions =>
                        /\ Len(FillsOf(sessions', KeyOf(s))) =
                              IF Publishing("fill")' THEN 1 ELSE 0
                        /\ \A sym \in Symbols :
                              Pos(sessions', KeyOf(s), sym) =
                                  IF Publishing("fill")' /\ sym = SymOf(s)
                                  THEN PositionAfter(s.action, s.quantity[2], 0)
                                  ELSE 0
                  /\ \A other \in DOMAIN sessions \ {KeyOf(s)} :
                        /\ sessions'[other].positions = sessions[other].positions
                        /\ sessions'[other].fills = sessions[other].fills
        /\ \A id \in SessionIds :
              reset_session(id) => DOMAIN sessions' = DOMAIN sessions \ {id}
        /\ (reset_positions_class_route \/ reset_positions) => DOMAIN sessions' = {}
        /\ OtherStep => DOMAIN sessions' = DOMAIN sessions]_vars

\* C19: resetting one session removes that session and leaves every other session
\* as it was; resetting a session_id that has no session answers success = false
\* and changes nothing.
C19_ResetSessionRemovesOnlyThat ==
    [][\A id \in SessionIds :
          reset_session(id) =>
              LET call == reset_session_call(sessions, id)
              IN  IF id \in DOMAIN sessions
                  THEN /\ call.body.success
                       /\ DOMAIN sessions' = DOMAIN sessions \ {id}
                       /\ \A other \in DOMAIN sessions \ {id} :
                              sessions'[other] = sessions[other]
                       /\ UNCHANGED <<fill_count, current_prices, config>>
                  ELSE /\ ~call.body.success
                       /\ UNCHANGED vars]_vars

\* Two sessions had one fill each and one of them was reset: the other is still
\* there with its fill.
C19_Witness ==
    /\ fill_count = 2
    /\ DOMAIN sessions = {"unknown"}
    /\ Len(sessions["unknown"].fills) = 1
    /\ Pos(sessions, "unknown", "SPY") > 0

\* C20: in every reachable state with no sessions, reset-all leaves the sessions,
\* the fill counter, the configuration and the known prices as they were (its
\* answer is success in every state).
C20_ResetAllOnEmptyIsNoOp ==
    [][(sessions = EmptyMap /\ (reset_positions_class_route \/ reset_positions)) =>
          /\ reset_positions_call(sessions, fill_count).body.success
          /\ reset_positions_class_route_call(sessions, fill_count).body.success
          /\ UNCHANGED <<sessions, fill_count, config, current_prices>>]_vars

----------------------------------------------------------------------------
\* StrategyRegistry (src/strategy-engine/strategies/strategy_registry.py)

\* Strategy classes handed to register_strategy: the three built-in ones, the
\* template class (template/strategy_template.py) under its own strategy_name,
\* under the name "ma_cross", and without a strategy_name.
StrategyClasses ==
    { [class |-> "BuyAndHoldStrategy", strategy_name |-> "buy_hold"],
      [class |-> "MACrossoverStrategy", strategy_name |-> "ma_cross"],
      [class |-> "RSIStrategy", strategy_name |-> "rsi"],
      [class |-> "MyStrategy", strategy_name |-> "my_strategy"],
      [class |-> "MyStrategy", strategy_name |-> "ma_cross"],
      [class |-> "MyStrategy", strategy_name |-> KeyAbsent] }

\* MyStrategy.__init__ and initialize (template/strategy_template.py:57-90)
MyStrategy_initialize(strategy_id, params) ==
    Some([kind |-> "my_strategy", strategy_id |-> strategy_id, params |-> params,
          symbol |-> GetStr(params.symbol, "SPY"),
          quantity |-> GetNum(params.quantity, Num(100)),
          position |-> None])

\* self._strategies.keys(), in order
RegisteredNames(reg) == [i \in 1..Len(reg) |-> reg[i].name]

\* name in self._strategies
IsRegistered(reg, name) == \E i \in 1..Len(reg) : reg[i].name = name

\* self._strategies[name]
ClassOf(reg, name) == reg[CHOOSE i \in 1..Len(reg) : reg[i].name = name].class

\* register_strategy that appends an entry whether the name is there or not.
register_strategy_call_AlwaysAppends(reg, strategy_class) ==
    IF strategy_class.strategy_name = KeyAbsent
    THEN [raised |-> TRUE, registry |-> reg]
    ELSE [raised |-> FALSE,
          registry |-> Append(reg, [name |-> strategy_class.strategy_name,
                                    class |-> strategy_class.class])]

\* register_strategy (lines 39-60): ValueError without a strategy_name; otherwise
\* self._strategies[name] = strategy_class, which keeps the place of a name that
\* is already a key and appends a new one.
register_strategy_call(reg, strategy_class) ==
    IF strategy_class.strategy_name = KeyAbsent
    THEN [raised |-> TRUE, registry |-> reg]
    ELSE LET name == strategy_class.strategy_name
             entry == [name |-> name, class |-> strategy_class.class]
         IN  [raised |-> FALSE,
              registry |-> IF IsRegistered(reg, name)
                           THEN [i \in 1..Len(reg) |->
                                    IF reg[i].name = name THEN entry ELSE reg[i]]
                           ELSE Append(reg, entry)]

\* list_strategies (lines 156-171): one dict per entry
list_strategies(reg) ==
    [i \in 1..Len(reg) |-> [name |-> reg[i].name, class |-> reg[i].class]]

\* strategy_class() then initialize(strategy_id, params) (lines 150-152): None
\* when initialize raises
Construct(class, strategy_id, params) ==
    IF class = "BuyAndHoldStrategy" THEN BuyAndHold_initialize(strategy_id, params)
    ELSE IF class = "MACrossoverStrategy" THEN MACrossover_initialize(strategy_id, params)
    ELSE IF class = "RSIStrategy" THEN RSI_initialize(strategy_id, params)
    ELSE MyStrategy_initialize(strategy_id, params)

\* create_strategy that builds the instance without looking the name up first.
StrategyRegistry_create_strategy_NoLookup(reg, strategy_name, strategy_id, params) ==
    LET instance == Construct(IF IsRegistered(reg, strategy_name)
                              THEN ClassOf(reg, strategy_name)
                              ELSE "MyStrategy", strategy_id, params)
    IN  IF instance = None
        THEN [error |-> Some([kind |-> "invalid parameters", available |-> << >>]),
              instance |-> None, registry |-> reg]
        ELSE [error |-> None, instance |-> instance, registry |-> reg]

\* create_strategy (lines 143-154): how the call ends.  error is None, or the
\* ValueError: "not found" with the names it lists (line 144), or the one that
\* initialize raised.
StrategyRegistry_create_strategy(reg, strategy_name, strategy_id, params) ==
    IF ~IsRegistered(reg, strategy_name)
    THEN [error |-> Some([kind |-> "not found", available |-> RegisteredNames(reg)]),
          instance |-> None, registry |-> reg]
    ELSE LET instance == Construct(ClassOf(reg, strategy_name), strategy_id, params)
         IN  IF instance = None
             THEN [error |-> Some([kind |-> "invalid parameters", available |-> << >>]),
                   instance |-> None, registry |-> reg]
             ELSE [error |-> None, instance |-> instance, registry |-> reg]

\* Parameter maps of a create call for rsi: those of RSIParams and the ends of
\* the constraints.
RSICreateParams ==
    RSIParams \cup
    { RSIParamsOf(Num(p), Num(lo), Num(hi), Absent) :
          p \in {1, 2}, lo \in {0, 1, 50}, hi \in {50, 99, 100} }

CreateNames == {"buy_hold", "ma_cross", "rsi", "my_strategy", "no_such_strategy"}

\* Names handed to unregister_strategy
UnregisterNames == {"ma_cross", "my_strategy"}

\* Parameter maps of a create call for ma_cross: those of MACrossParams, maps
\* that give one of the two periods only, and "SMA" in capitals.
MACreateParams ==
    MACrossParams \cup
    { [symbol |-> KeyAbsent, quantity |-> Absent, fast_period |-> f,
       slow_period |-> sl, ma_type |-> t] :
          f \in {Absent, Num(MaxPeriod)}, sl \in {Absent, Num(MaxPeriod)},
          t \in {KeyAbsent, "SMA"} }

CreateParams(strategy_name) ==
    IF strategy_name = "ma_cross" THEN MACreateParams
    ELSE IF strategy_name = "rsi" THEN RSICreateParams
    ELSE BuyHoldParams

\* registry.register_strategy(strategy_class)
register_strategy(strategy_class) ==
    /\ registry' = register_strategy_call(registry, strategy_class).registry
    /\ UNCHANGED <<created, simVars, stratVars, engVars>>

\* registry.unregister_strategy(strategy_name) (lines 210-224)
unregister_strategy(strategy_name) ==
    /\ IF IsRegistered(registry, strategy_name)
       THEN registry' = SelectSeq(registry, LAMBDA e : e.name # strategy_name)
       ELSE UNCHANGED registry
    /\ UNCHANGED <<created, simVars, stratVars, engVars>>

\* registry.create_strategy(strategy_name, "s1", params); `created` keeps how the
\* call ended.
registry_create(strategy_name, params) ==
    LET call == StrategyRegistry_create_strategy(registry, strategy_name, "s1", params)
    IN  /\ created' = Some([strategy_name |-> strategy_name, params |-> params,
                            class |-> IF IsRegistered(registry, strategy_name)
                                      THEN ClassOf(registry, strategy_name)
                                      ELSE KeyAbsent,
                            error |-> call.error, instance |-> call.instance])
        /\ registry' = call.registry
        /\ UNCHANGED <<simVars, stratVars, engVars>>

RegistryNext ==
    \/ \E strategy_class \in StrategyClasses : register_strategy(strategy_class)
    \/ \E name \in UnregisterNames : unregister_strategy(name)
    \/ \E name \in CreateNames : \E params \in CreateParams(name) :
           registry_create(name, params)

SpecRegistry == Init /\ [][RegistryNext]_vars

----------------------------------------------------------------------------
\* Readings of the last create call

\* the last create_strategy call built an instance of that class / was refused by it
CreatedBy(class) == created # None /\ created[1].class = class
Succeeded == created[1].instance # None

\* params merged over default_params: the value of a key
MergedNum(field, default) == GetNum(field, Num(default))[2]

\* C24 as stated: creating an ma_cross instance succeeds exactly when, after merging
\* params over the defaults, fast_period < slow_period and ma_type is 'sma' or 'ema'.
C24_MACrossCreatedIffValid ==
    CreatedBy("MACrossoverStrategy") =>
        LET params == created[1].params
        IN  Succeeded <=>
               /\ MergedNum(params.fast_period, 20) < MergedNum(params.slow_period, 50)
               /\ GetStr(params.ma_type, "sma") \in {"sma", "ema"}

\* C24 amended: as stated, with ma_type compared without regard to case.
C24_MACrossCreatedIffValidAnyCase ==
    CreatedBy("MACrossoverStrategy") =>
        LET params == created[1].params
        IN  /\ Succeeded <=>
                  /\ MergedNum(params.fast_period, 20) < MergedNum(params.slow_period, 50)
                  /\ Lower(GetStr(params.ma_type, "sma")) \in {"sma", "ema"}
            /\ ~Succeeded => created[1].error # None

\* An ma_cross instance was created with ma_type "EMA" and the largest fast
\* period that the slow one allows.
C24_Witness ==
    /\ CreatedBy("MACrossoverStrategy")
    /\ Succeeded
    /\ created[1].params.ma_type = "EMA"
    /\ created[1].instance[1].fast_period + 1 = created[1].instance[1].slow_period

\* C25: creating an rsi instance succeeds exactly when, after merging params over
\* the defaults, 0 < oversold_threshold < overbought_threshold < 100 and
\* rsi_period >= 2; otherwise create raises and returns no instance.
C25_RSICreatedIffValid ==
    CreatedBy("RSIStrategy") =>
        LET params == created[1].params
            oversold == MergedNum(params.oversold_threshold, 30)
            overbought == MergedNum(params.overbought_threshold, 70)
        IN  /\ Succeeded <=>
                  /\ 0 < oversold /\ oversold < overbought /\ overbought < 100
                  /\ MergedNum(params.rsi_period, 14) >= 2
            /\ ~Succeeded => created[1].error # None

\* An rsi instance was created with the thresholds 1 and 99 and the period 2.
C25_Witness ==
    /\ CreatedBy("RSIStrategy")
    /\ Succeeded
    /\ created[1].instance[1].oversold_threshold = 1
    /\ created[1].instance[1].overbought_threshold = 99
    /\ created[1].instance[1].rsi_period = 2

\* C26: create with a name that is not registered raises the not-found error,
\* which lists every registered name, builds no instance and leaves the registry as
\* it was; create with a registered name never raises that error.
C26_UnknownNameListsRegistered ==
    [][\A name \in CreateNames : \A params \in CreateParams(name) :
          (/\ created' # None
           /\ created'[1].strategy_name = name
           /\ created'[1].params = params
           /\ registry_create(name, params)) =>
              LET call == created'[1]
              IN  /\ registry' = registry
                  /\ IF ~IsRegistered(registry, name)
                     THEN /\ call.error # None
                          /\ call.error[1].kind = "not found"
                          /\ Len(call.error[1].available) = Len(registry)
                          /\ \A i \in 1..Len(registry) :
                                 \E k \in 1..Len(call.error[1].available) :
                                     call.error[1].available[k] = registry[i].name
                          /\ call.instance = None
                     ELSE call.error = None \/ call.error[1].kind # "not found"]_vars

\* create("no_such_strategy") failed while four names were registered, and its
\* error lists the four.
C26_Witness ==
    /\ created # None
    /\ created[1].strategy_name = "no_such_strategy"
    /\ created[1].error # None
    /\ Len(created[1].error[1].available) = 4
    /\ Len(registry) = 4

----------------------------------------------------------------------------
\* StrategyEngine and its HTTP handlers (src/strategy-engine/main.py)
\*
\* heap[h] is the h-th instance the engine created: its state and the calls made on
\* it.  subs maps a live subscription to the strategy_id and the instance that its
\* message_handler closes over; the subscription of instance h is numbered h.
\* The bus (nats-py) is outside the repository: subscribe registers the handler
\* before it suspends, unsubscribe removes it before it suspends, and a handler
\* gets no message once its subscription is removed.  engine.running stays True
\* until shutdown, which ends the process.

\* Path parameters of unload, ids of load requests
EngineIds == {"a", "b"}

NoParams == [symbol |-> KeyAbsent, quantity |-> Absent]

\* Bodies of POST /strategies/load: for each id a buy_hold, a request without a
\* type (ma_cross by default) whose parameters initialize refuses, and a type that
\* is not registered.
LoadRequests ==
    { [id |-> i, strategy |-> k[1], params |-> k[2]] :
        i \in EngineIds,
        k \in { <<"buy_hold", NoParams>>,
                <<KeyAbsent, [symbol |-> KeyAbsent, quantity |-> Absent,
                              fast_period |-> Num(2), slow_period |-> Num(1),
                              ma_type |-> KeyAbsent]>>,
                <<"no_such_strategy", NoParams>> } }

\* f"strategy_{n}", the id of a load request that names none (line 364)
DefaultId(n) == "strategy_" \o ToString(n)

\* strategy_instance.process_bar(bar) on an instance of any class (line 111)
InstanceProcessBar(self, bar, rounding) ==
    IF self.kind = "buy_hold" THEN BuyAndHold_process_bar(self, bar)
    ELSE IF self.kind = "rsi" THEN RSI_process_bar(self, bar, rounding)
    ELSE IF self.kind = "ma_cross" THEN MACrossover_process_bar(self, bar, rounding > 0)
    ELSE [self |-> self, result |-> None]

\* How often call was made on instance h
Calls(hp, h, call) == Cardinality({i \in 1..Len(hp[h].calls) : hp[h].calls[i] = call})

\* heap with one more call made on instance h
Called(hp, h, call) == [hp EXCEPT ![h].calls = Append(@, call)]

\* load_strategy that creates the message counter before it creates the instance
\* (line 98 ahead of line 82).
load_strategy_call_CountsFirst(reg, strats, counts, sb, hp, request) ==
    LET strategy_id == GetStr(request.id, DefaultId(Cardinality(DOMAIN strats)))
        strategy_type == GetStr(request.strategy, "ma_cross")
        made == StrategyRegistry_create_strategy(reg, strategy_type, strategy_id,
                                                 request.params)
        h == Len(hp) + 1
    IN  IF made.instance = None
        THEN [counts |-> Put(counts, strategy_id, 0), subs |-> sb, heap |-> hp,
              suspended |-> None,
              body |-> [success |-> FALSE, id |-> strategy_id,
                        message |-> made.error[1].kind,
                        available_strategies |-> RegisteredNames(reg)]]
        ELSE [counts |-> Put(counts, strategy_id, 0),
              subs |-> Put(sb, h, [strategy_id |-> strategy_id, instance |-> h]),
              heap |-> Append(hp, [instance |-> InstanceOnStart(made.instance[1]),
                                   calls |-> <<"on_start">>]),
              suspended |-> Some([op |-> "load", strategy_id |-> strategy_id,
                                  type |-> strategy_type, sub |-> h]),
              body |-> [success |-> TRUE, id |-> strategy_id, message |-> "loaded",
                        available_strategies |-> << >>]]

\* load_strategy (lines 344-382) running process_bars (lines 70-123) up to its
\* `await self.nc.subscribe`: what it leaves, the frame it suspends with (None when
\* it returns at once) and the body it answers with (in the end, when suspended).
load_strategy_call(reg, strats, counts, sb, hp, request) ==
    LET strategy_id == GetStr(request.id, DefaultId(Cardinality(DOMAIN strats)))
        strategy_type == GetStr(request.strategy, "ma_cross")
        made == StrategyRegistry_create_strategy(reg, strategy_type, strategy_id,
                                                 request.params)
        h == Len(hp) + 1
    IN  IF made.instance = None
        THEN [counts |-> counts, subs |-> sb, heap |-> hp, suspended |-> None,
              body |-> [success |-> FALSE, id |-> strategy_id,
                        message |-> made.error[1].kind,
                        available_strategies |-> RegisteredNames(reg)]]
        ELSE [counts |-> Put(counts, strategy_id, 0),
              subs |-> Put(sb, h, [strategy_id |-> strategy_id, instance |-> h]),
              heap |-> Append(hp, [instance |-> InstanceOnStart(made.instance[1]),
                                   calls |-> <<"on_start">>]),
              suspended |-> Some([op |-> "load", strategy_id |-> strategy_id,
                                  type |-> strategy_type, sub |-> h]),
              body |-> [success |-> TRUE, id |-> strategy_id, message |-> "loaded",
                        available_strategies |-> << >>]]

load_strategy(request) ==
    /\ Len(heap) < MaxLoads
    /\ LET call == load_strategy_call(registry, strategies, strategy_message_counts,
                                       subs, heap, request)
       IN  /\ strategy_message_counts' = call.counts
           /\ subs' = call.subs
           /\ heap' = call.heap
           /\ IF call.suspended = None
              THEN /\ response' = Some(call.body)
                   /\ UNCHANGED pending
              ELSE /\ pending' = pending \cup {call.suspended[1]}
                   /\ UNCHANGED response
    /\ UNCHANGED <<strategies, message_count, bus, regVars, simVars, stratVars>>

\* nc.subscribe returned: lines 126-131, then load_strategy answers (lines 371-376).
load_strategy_resume ==
    \E frame \in pending :
        /\ frame.op = "load"
        /\ strategies' = Put(strategies, frame.strategy_id,
                             [sub |-> frame.sub, status |-> "running",
                              type |-> frame.type, instance |-> frame.sub])
        /\ pending' = pending \ {frame}
        /\ response' = Some([success |-> TRUE, id |-> frame.strategy_id,
                             message |-> "loaded", available_strategies |-> << >>])
        /\ UNCHANGED <<strategy_message_counts, message_count, subs, heap, bus,
                       regVars, simVars, stratVars>>

\* message_handler of subscription sub (lines 100-120) for one message; payload is
\* None for bytes that json.loads refuses.  Lines 101-102 are outside the try:
\* without a counter for its strategy_id the handler raises there.  The handler's
\* `await self.publish_signal(signal)` is its last statement.
message_handler_upto(limit, sub, payload, rounding) ==
    /\ sub \in DOMAIN subs
    /\ message_count < limit
    /\ message_count' = message_count + 1
    /\ LET strategy_id == subs[sub].strategy_id
           h == subs[sub].instance
       IN  IF strategy_id \notin DOMAIN strategy_message_counts
           THEN UNCHANGED <<strategy_message_counts, heap>>
           ELSE /\ strategy_message_counts' =
                       [strategy_message_counts EXCEPT ![strategy_id] = @ + 1]
                /\ IF payload = None
                   THEN UNCHANGED heap
                   ELSE heap' = Called([heap EXCEPT ![h].instance =
                                            InstanceProcessBar(@, payload[1], rounding).self],
                                       h, "process_bar")
    /\ UNCHANGED <<strategies, subs, pending, response, regVars, simVars, stratVars>>

\* message_handler that hands bytes json.loads refuses to the strategy as an empty
\* bar.
message_handler_ProcessesGarbage(sub, payload, rounding) ==
    /\ sub \in DOMAIN subs
    /\ message_count < MaxMessages
    /\ message_count' = message_count + 1
    /\ LET strategy_id == subs[sub].strategy_id
           h == subs[sub].instance
           bar == IF payload = None THEN [close |-> Absent] ELSE payload[1]
       IN  IF strategy_id \notin DOMAIN strategy_message_counts
           THEN UNCHANGED <<strategy_message_counts, heap>>
           ELSE /\ strategy_message_counts' =
                       [strategy_message_counts EXCEPT ![strategy_id] = @ + 1]
                /\ heap' = Called([heap EXCEPT ![h].instance =
                                       InstanceProcessBar(@, bar, rounding).self],
                                  h, "process_bar")
    /\ UNCHANGED <<strategies, subs, pending, response, bus, regVars, simVars, stratVars>>

\* the handler called with a message as it arrives, for runs of at most MaxMessages
\* messages
message_handler(sub, payload, rounding) ==
    /\ message_handler_upto(MaxMessages, sub, payload, rounding)
    /\ UNCHANGED bus

\* unload_strategy that leaves the subscription in place.
unload_strategy_call_KeepsSubscription(strats, counts, sb, hp, strategy_id) ==
    IF strategy_id \in DOMAIN strats
    THEN LET info == strats[strategy_id]
         IN  [strategies |-> strats, counts |-> counts, subs |-> sb,
              heap |-> Called([hp EXCEPT ![info.instance].instance = InstanceOnStop(@)],
                             info.instance, "on_stop"),
              suspended |-> Some([op |-> "unload", strategy_id |-> strategy_id,
                                  type |-> info.type, sub |-> info.sub]),
              body |-> [success |-> TRUE, id |-> strategy_id, message |-> "unloaded",
                        available_strategies |-> << >>]]
    ELSE [strategies |-> strats, counts |-> counts, subs |-> sb, heap |-> hp,
          suspended |-> None,
          body |-> [success |-> FALSE, id |-> strategy_id, message |-> "not found",
                    available_strategies |-> << >>]]

\* unload_strategy that cleans the message counter up outside the `if` of line 387.
unload_strategy_call_AlwaysCleansUp(strats, counts, sb, hp, strategy_id) ==
    IF strategy_id \in DOMAIN strats
    THEN LET info == strats[strategy_id]
         IN  [strategies |-> strats, counts |-> counts,
              subs |-> IF info.sub \in DOMAIN sb THEN Del(sb, info.sub) ELSE sb,
              heap |-> Called([hp EXCEPT ![info.instance].instance = InstanceOnStop(@)],
                             info.instance, "on_stop"),
              suspended |-> IF info.sub \in DOMAIN sb
                            THEN Some([op |-> "unload", strategy_id |-> strategy_id,
                                       type |-> info.type, sub |-> info.sub])
                            ELSE None,
              body |-> [success |-> FALSE, id |-> strategy_id,
                        message |-> "Internal Server Error",
                        available_strategies |-> << >>]]
    ELSE [strategies |-> strats,
          counts |-> IF strategy_id \in DOMAIN counts THEN Del(counts, strategy_id)
                     ELSE counts,
          subs |-> sb, heap |-> hp, suspended |-> None,
          body |-> [success |-> FALSE, id |-> strategy_id, message |-> "not found",
                    available_strategies |-> << >>]]

\* unload_strategy (lines 384-408) up to its `await sub.unsubscribe()`: on_stop is
\* called, the subscription is removed, and the handler suspends; when the
\* subscription was removed before, unsubscribe raises and the request fails
\* there.  Without an entry for strategy_id it answers not found (line 408).
unload_strategy_call(strats, counts, sb, hp, strategy_id) ==
    IF strategy_id \in DOMAIN strats
    THEN LET info == strats[strategy_id]
         IN  [strategies |-> strats, counts |-> counts,
              subs |-> IF info.sub \in DOMAIN sb THEN Del(sb, info.sub) ELSE sb,
              heap |-> Called([hp EXCEPT ![info.instance].instance = InstanceOnStop(@)],
                             info.instance, "on_stop"),
              suspended |-> IF info.sub \in DOMAIN sb
                            THEN Some([op |-> "unload", strategy_id |-> strategy_id,
                                       type |-> info.type, sub |-> info.sub])
                            ELSE None,
              body |-> [success |-> FALSE, id |-> strategy_id,
                        message |-> "Internal Server Error",
                        available_strategies |-> << >>]]
    ELSE [strategies |-> strats, counts |-> counts, subs |-> sb, heap |-> hp,
          suspended |-> None,
          body |-> [success |-> FALSE, id |-> strategy_id, message |-> "not found",
                    available_strategies |-> << >>]]

unload_strategy(strategy_id) ==
    /\ strategy_id \in DOMAIN strategies =>
           Calls(heap, strategies[strategy_id].instance, "on_stop") < MaxStops
    /\ LET call == unload_strategy_call(strategies, strategy_message_counts, subs, heap,
                                         strategy_id)
       IN  /\ strategies' = call.strategies
           /\ strategy_message_counts' = call.counts
           /\ subs' = call.subs
           /\ heap' = call.heap
           /\ IF call.suspended = None
              THEN /\ response' = Some(call.body)
                   /\ UNCHANGED pending
              ELSE /\ pending' = pending \cup {call.suspended[1]}
                   /\ UNCHANGED response
    /\ UNCHANGED <<message_count, bus, regVars, simVars, stratVars>>

\* unsubscribe returned: lines 399-406.  `del engine.strategies[strategy_id]`
\* raises when another request removed the entry meanwhile.
unload_strategy_resume ==
    \E frame \in pending :
        /\ frame.op = "unload"
        /\ pending' = pending \ {frame}
        /\ IF frame.strategy_id \in DOMAIN strategies
           THEN /\ strategies' = Del(strategies, frame.strategy_id)
                /\ strategy_message_counts' =
                       IF frame.strategy_id \in DOMAIN strategy_message_counts
                       THEN Del(strategy_message_counts, frame.strategy_id)
                       ELSE strategy_message_counts
                /\ response' = Some([success |-> TRUE, id |-> frame.strategy_id,
                                     message |-> "unloaded",
                                     available_strategies |-> << >>])
           ELSE /\ response' = Some([success |-> FALSE, id |-> frame.strategy_id,
                                     message |-> "Internal Server Error",
                                     available_strategies |-> << >>])
                /\ UNCHANGED <<strategies, strategy_message_counts>>
        /\ UNCHANGED <<message_count, subs, heap, bus, regVars, simVars, stratVars>>

\* Bars delivered to the engine's subscriptions
EngineBars == { [close |-> Num(10)] }

\* The engine answering load and unload requests while bars are delivered.  The
\* instances loaded here never round: buy_hold computes nothing.
EngineNext(requests, bars) ==
    \/ \E request \in requests : load_strategy(request)
    \/ load_strategy_resume
    \/ \E sub \in DOMAIN subs, payload \in Payloads(bars) :
           message_handler(sub, payload, 0)
    \/ \E strategy_id \in EngineIds : unload_strategy(strategy_id)
    \/ unload_strategy_resume

NextEngine == EngineNext(LoadRequests, EngineBars)

SpecEngine == Init /\ [][NextEngine]_vars

\* The body of line 408 for strategy_id
NotFound(strategy_id) ==
    [success |-> FALSE, id |-> strategy_id, message |-> "not found",
     available_strategies |-> << >>]

\* C21: unloading a strategy_id that is not loaded answers not found and leaves the
\* loaded strategies, the subscriptions, the instances and every message counter
\* as they were.
C21_UnloadNotLoadedChangesNothing ==
    [][\A strategy_id \in EngineIds :
          (strategy_id \notin DOMAIN strategies /\ unload_strategy(strategy_id)) =>
              /\ response' = Some(NotFound(strategy_id))
              /\ UNCHANGED <<strategies, subs, heap, pending,
                             strategy_message_counts, message_count>>]_vars

\* "b" was asked to be unloaded while only "a" was ever loaded, with a live
\* subscription and counted messages.
C21_Witness ==
    /\ response = Some(NotFound("b"))
    /\ DOMAIN strategies = {"a"}
    /\ Len(heap) = 1
    /\ subs # EmptyMap
    /\ message_count > 0
    /\ "a" \in DOMAIN strategy_message_counts

\* The calls made on one instance are in lifecycle order: an on_start before every
\* process_bar, no process_bar after an on_stop.
LifecycleOrdered(calls) ==
    /\ \A j \in 1..Len(calls) :
           calls[j] = "process_bar" => \E i \in 1..(j - 1) : calls[i] = "on_start"
    /\ \A i, j \in 1..Len(calls) :
           (i < j /\ calls[i] = "on_stop") => calls[j] # "process_bar"

\* C22: however bar deliveries and unload requests interleave, every instance has
\* its on_start called before any of its process_bar calls, and gets no process_bar
\* call once its on_stop was called.
C22_LifecycleOrder ==
    \A h \in 1..Len(heap) : LifecycleOrdered(heap[h].calls)

\* An instance that processed a bar was stopped while another instance still has a
\* live subscription, and the unload is still suspended in unsubscribe.
C22_Witness ==
    /\ \E h \in 1..Len(heap) : heap[h].calls = <<"on_start", "process_bar", "on_stop">>
    /\ \E frame \in pending : frame.op = "unload"
    /\ subs # EmptyMap

\* What line 82 makes of a load request
CreationOf(request) ==
    StrategyRegistry_create_strategy(registry, GetStr(request.strategy, "ma_cross"),
                                     request.id, request.params)

\* The body of lines 377-382 for a request
LoadFailure(request) ==
    [success |-> FALSE, id |-> request.id, message |-> CreationOf(request).error[1].kind,
     available_strategies |-> RegisteredNames(registry)]

\* C23: a load request whose strategy cannot be created (type not registered, or
\* parameters refused by initialize) is answered with a failure, and adds no entry
\* to the loaded strategies, no message counter, no subscription and no instance
\* with on_start called.
C23_FailedLoadLeavesNothing ==
    [][\A request \in LoadRequests :
          (CreationOf(request).instance = None /\ load_strategy(request)) =>
              /\ response' = Some(LoadFailure(request))
              /\ ~ response'[1].success
              /\ UNCHANGED <<strategies, strategy_message_counts, subs, heap, pending,
                             message_count>>]_vars

\* A load of "b" was refused for its parameters while "a" is loaded: "b" has no
\* entry, no counter and no subscription, and only one instance was ever started.
C23_Witness ==
    /\ response # None
    /\ response[1].message = "invalid parameters"
    /\ response[1].id = "b"
    /\ DOMAIN strategies = {"a"}
    /\ DOMAIN strategy_message_counts = {"a"}
    /\ Len(heap) = 1
    /\ \A sub \in DOMAIN subs : subs[sub].strategy_id = "a"

----------------------------------------------------------------------------
\* Both services receiving messages, decodable or not

\* Load requests that succeed
BuyHoldRequests == {request \in LoadRequests : request.strategy = "buy_hold"}

\* Signals of one session
MessageSignals ==
    { Signal("s1", KeyAbsent, a, Num(1), Num(Dollars(100))) : a \in {"BUY", "SELL"} }

NextMessages ==
    \/ \E request \in BuyHoldRequests : load_strategy(request)
    \/ load_strategy_resume
    \/ \E sub \in DOMAIN subs, payload \in Payloads(EngineBars) :
           message_handler(sub, payload, 0)
    \/ /\ \/ \E payload \in Payloads(MessageSignals) : handle_signal(payload)
          \/ handle_signal_resume
          \/ \E payload \in Payloads(MarketBars) : handle_market_data(payload)
       /\ UNCHANGED <<stratVars, regVars, engVars>>

SpecMessages == Init /\ [][NextMessages]_vars

\* C28: a bar or signal payload that cannot be decoded is dropped: no strategy
\* instance, session ledger, fill history or fill counter changes, and every
\* subscription and both services stay as they were, so that the messages that
\* follow are handled as if it had not arrived.
C28_MalformedDropped ==
    [][ /\ \A sub \in DOMAIN subs :
               message_handler(sub, None, 0) =>
                   UNCHANGED <<heap, subs, strategies, pending, simVars>>
        /\ (handle_signal(None) /\ UNCHANGED engVars) =>
               UNCHANGED <<sessions, fill_count, fill_id_log, inflight, current_prices,
                           running, config, heap, subs>>
        /\ (handle_market_data(None) /\ UNCHANGED engVars) =>
               UNCHANGED <<sessions, fill_count, fill_id_log, inflight, current_prices,
                           running, config, heap, subs>> ]_vars

\* Instance 1 got two messages and processed one of them, the other one being
\* undecodable; a fill was recorded too.
C28_Witness ==
    /\ Len(heap) >= 1
    /\ heap[1].calls = <<"on_start", "process_bar">>
    /\ 1 \in DOMAIN subs
    /\ subs[1].strategy_id \in DOMAIN strategy_message_counts
    /\ strategy_message_counts[subs[1].strategy_id] = 2
    /\ Len(heap) = 1
    /\ fill_count = 1

----------------------------------------------------------------------------
\* Configuration updates between fills

\* Bodies of POST /config: each of slippage and commission alone, both together,
\* and the slippage percentage under the name the fills report it by.
ConfigChanges ==
    { [slippage |-> 100],
      [commission |-> Dollars(2)],
      [slippage |-> 100, commission |-> Dollars(2)],
      [slippage_pct |-> 100] }

NextConfig == SimNext(MessageSignals, MarketBars, ConfigChanges)

SpecConfig == Init /\ [][NextConfig]_vars

\* update_config steps merge the body into the configuration and leave every
\* session, with the fills it recorded, alone.
UpdateMerges ==
    \A u \in ConfigChanges :
        update_config(u) =>
            /\ \A k \in DOMAIN u : config'[k] = u[k]
            /\ \A k \in DOMAIN config \ DOMAIN u : config'[k] = config[k]
            /\ UNCHANGED <<sessions, fill_count>>

\* A step that records a fill computes it from the configuration's commission
\* and from the percentage the configuration holds under slippage_key, when it
\* holds one.
FillUses(slippage_key) ==
    (Len(fill_id_log') = Len(fill_id_log) + 1 /\ slippage_key \in DOMAIN config) =>
        LET fill == inflight'[1].publishing.payload
            amount == Percent(fill.base_price, config[slippage_key])
        IN  /\ fill.commission = config.commission
            /\ fill.slippage_pct = config[slippage_key]
            /\ fill.slippage_amount \in Round2(amount)
            /\ fill.price \in Round2(IF fill.action = "BUY" THEN fill.base_price + amount
                                      ELSE fill.base_price - amount)
            /\ fill = sessions'[fill.strategy_id].fills[Len(sessions'[fill.strategy_id].fills)]

----------------------------------------------------------------------------
\* simulate_fill among resets

\* C30: under every interleaving of signal handling, market data and reset
\* requests, the position check, the ledger update, the fill_id assignment and the
\* history append of one simulate_fill are one step: the fill is checked against
\* and added to the position the session had when the step began, numbered from
\* the counter as it was then, and appended to the history as it was then.
C30_FillIsOneStep ==
    [][\A s \in TradeSignals :
          (Len(fill_id_log') = Len(fill_id_log) + 1 /\ handle_signal(Some(s))) =>
              LET id == KeyOf(s)
                  sym == SymOf(s)
                  before == Pos(sessions, id, sym)
                  fill == inflight'[1].publishing.payload
              IN  /\ s.action = "SELL" => before > 0 /\ fill.quantity <= before
                  /\ fill.position_after = PositionAfter(s.action, fill.quantity, before)
                  /\ Pos(sessions', id, sym) = fill.position_after
                  /\ fill.fill_id = fill_count + 1
                  /\ fill_count' = fill_count + 1
                  /\ FillsOf(sessions', id) = Append(FillsOf(sessions, id), fill)]_vars

\* A reset of all sessions arrived while a fill of "s1" was being published: it
\* took effect after the fill's step, whose counter value is in the log.
C30_Witness ==
    /\ Publishing("fill")
    /\ inflight[1].publishing.subject[2] = "s1"
    /\ "s1" \notin DOMAIN sessions
    /\ fill_count = 0
    /\ Len(fill_id_log) = 2

----------------------------------------------------------------------------
\* Signals with an action that is neither BUY nor SELL

\* C36: a signal whose action is neither BUY nor SELL, with a non-zero quantity,
\* produces no Fill and leaves the session's ledger entry, its fill history and the
\* fill counter unchanged.
C36_UnknownActionNoFill ==
    [][\A s \in Signals :
          (s.action \notin {"BUY", "SELL"} /\ Truthy(s.quantity) /\ running
              /\ handle_signal(Some(s))) =>
              /\ ~ Publishing("fill")'
              /\ fill_count' = fill_count
              /\ FillsOf(sessions', KeyOf(s)) = FillsOf(sessions, KeyOf(s))
              /\ Pos(sessions', KeyOf(s), SymOf(s)) = Pos(sessions, KeyOf(s), SymOf(s))]_vars

----------------------------------------------------------------------------
\* The fill counter and the fills that are held

\* The number of Fills in the histories of the sessions of ss
RECURSIVE HeldFills(_)
HeldFills(ss) ==
    IF DOMAIN ss = {} THEN 0
    ELSE LET id == CHOOSE k \in DOMAIN ss : TRUE
         IN  Len(ss[id].fills) + HeldFills(Del(ss, id))

\* C40: in every reachable state fill_count equals the number of Fills held in
\* the fill histories of all existing sessions.
C40_CounterEqualsHeldFills ==
    fill_count = HeldFills(sessions)

\* C40 (amended): fill_count goes up by one exactly with each Fill appended to a
\* history, is otherwise only ever set to 0 (by a reset of all sessions), and no
\* other step adds a Fill; removing a session's Fills does not lower it.
C40_CounterFollowsFills ==
    [][ \/ fill_count' = fill_count + 1 /\ HeldFills(sessions') = HeldFills(sessions) + 1
        \/ fill_count' = 0 /\ HeldFills(sessions') \in {0, HeldFills(sessions)}
        \/ fill_count' = fill_count /\ HeldFills(sessions') <= HeldFills(sessions) ]_vars

\* Two fills were made in two sessions and one of the sessions was reset: the
\* counter is ahead of the Fills held.
C40_Witness ==
    /\ fill_count = 2
    /\ fill_id_log = <<1, 2>>
    /\ HeldFills(sessions) = 1
    /\ DOMAIN sessions = {"unknown"}

----------------------------------------------------------------------------
\* The signals of the crossover and RSI strategies, in the order they are emitted

\* The engine creating one instance of a built-in strategy, calling its hooks and
\* feeding it bars.
SignalsNext ==
    \/ strategy = None /\ \E params \in MACrossParams : create_strategy("ma_cross", "s1", params)
    \/ strategy = None /\ \E params \in RSIParams : create_strategy("rsi", "s1", params)
    \/ strategy = None /\ \E params \in BuyHoldParams : create_strategy("buy_hold", "s1", params)
    \/ on_start
    \/ on_stop
    \/ \E bar \in StrategyBars, rounding \in Roundings : process_bar(bar, rounding)

SpecSignals == Init /\ [][SignalsNext]_vars

\* The actions of the signals among results, in order
RECURSIVE EmittedActions(_)
EmittedActions(results) ==
    IF results = << >> THEN << >>
    ELSE IF Head(results) = None THEN EmittedActions(Tail(results))
    ELSE <<Head(results)[1].action>> \o EmittedActions(Tail(results))

\* C34: the signals an ma_cross or rsi instance (either RSI mode) has emitted
\* alternate BUY, SELL, BUY, ... starting with a BUY, and after every process_bar
\* call the instance is long exactly when the last signal it emitted is a BUY.
C34_SignalsAlternate ==
    (IsKind("ma_cross") \/ IsKind("rsi")) =>
        LET emitted == EmittedActions(returned)
        IN  /\ \A i \in DOMAIN emitted :
                   emitted[i] = IF i % 2 = 1 THEN "BUY" ELSE "SELL"
            /\ strategy[1].position = Some("long") <=>
                   (emitted # << >> /\ emitted[Len(emitted)] = "BUY")

\* An ma_cross instance that bought, sold and bought again.
C34_Witness ==
    /\ IsKind("ma_cross")
    /\ EmittedActions(returned) = <<"BUY", "SELL", "BUY">>
    /\ strategy[1].position = Some("long")

----------------------------------------------------------------------------
\* RSI confirmation mode: the extreme that a signal answers

\* the last bar before j on which the instance returned a signal of that action,
\* 0 when there is none
LastSignalBefore(j, action) ==
    LET at == {i \in 1..(j - 1) : IsSignal(returned[i], action)}
    IN  IF at = {} THEN 0 ELSE CHOOSE i \in at : \A k \in at : k <= i

\* C39: in confirmation mode every SELL comes after a bar, not earlier than the
\* most recent BUY, whose RSI was above overbought_threshold, and every BUY after
\* a SELL comes after a bar, not earlier than that SELL, whose RSI was below
\* oversold_threshold.
C39_ExtremeSinceLastSignal ==
    IsRSI(TRUE) =>
        \A j \in DOMAIN returned :
            /\ IsSignal(returned[j], "SELL") =>
                   \E i \in Max(1, LastSignalBefore(j, "BUY"))..(j - 1) :
                       ReadAbove(i, strategy[1].overbought_threshold)
            /\ (IsSignal(returned[j], "BUY") /\ LastSignalBefore(j, "SELL") > 0) =>
                   \E i \in LastSignalBefore(j, "SELL")..(j - 1) :
                       ReadBelow(i, strategy[1].oversold_threshold)

----------------------------------------------------------------------------
\* The lifecycle hooks of the built-in strategies

\* C33: on_start and on_stop of every built-in strategy leave the instance as it
\* is (price window, position, previous MA state, last RSI, zone flags,
\* has_bought), so that the next bar is answered in the same way whether or not
\* the hooks were called before it.
C33_HooksLeaveInstance ==
    strategy # None =>
        LET self == strategy[1]
        IN  /\ InstanceOnStart(self) = self
            /\ InstanceOnStop(self) = self
            /\ \A bar \in StrategyBars, rounding \in Roundings :
                   InstanceProcessBar(InstanceOnStop(InstanceOnStart(self)), bar, rounding)
                       = InstanceProcessBar(self, bar, rounding)

\* A long ma_cross instance, whose on_stop takes the branch that reports the
\* position, with a bar still to come.
C33_Witness ==
    /\ IsKind("ma_cross")
    /\ strategy[1].position = Some("long")
    /\ strategy[1].previous_state # None
    /\ Len(returned) < MaxBars

----------------------------------------------------------------------------
\* The price window over a run long enough to overflow it

\* a slow period and an RSI period whose windows are larger than the minimum of 100
LongSlowPeriod == 95
LongRsiPeriod == 85

\* Parameter maps of the long runs: simple moving averages and RSIs with short and
\* long lookbacks.
WindowParams ==
    { <<"ma_cross", [symbol |-> KeyAbsent, quantity |-> Absent, fast_period |-> Num(1),
                     slow_period |-> Num(sl), ma_type |-> KeyAbsent]>> :
          sl \in {2, LongSlowPeriod} }
    \cup { <<"rsi", RSIParamsOf(Num(n), Absent, Absent, Absent)>> :
               n \in {2, LongRsiPeriod} }

\* The n-th bar of a long run: its close follows a cycle of seven prices, and every
\* twentieth bar may also come without a close.
WindowBars(n) ==
    { [close |-> Num(10 * (1 + (n % 7)))] }
    \cup (IF n % 20 = 0 THEN { [close |-> Absent] } ELSE {})

\* The engine creating one instance and feeding it up to MaxFed bars.
WindowNext ==
    \/ strategy = None /\ \E made \in WindowParams : create_strategy(made[1], "s1", made[2])
    \/ \E bar \in WindowBars(Len(fed) + 1) : process_bar_within(MaxFed, bar, 0)
    \/ on_start
    \/ on_stop

SpecWindow == Init /\ [][WindowNext]_vars

\* the closes process_bar reads from the bars it was given
ClosesOf(bars) == [i \in DOMAIN bars |-> GetNum(bars[i].close, Num(0))[2]]

\* the longest lookback of an instance: the slow period, or rsi_period + 1 prices
Lookback(self) ==
    IF self.kind = "rsi" THEN self.rsi_period + 1 ELSE self.slow_period

\* C32: the window of an ma_cross or rsi instance never holds more than
\* max_history_size prices, holds the closes of the most recent bars in arrival
\* order (the oldest leave first), and max_history_size is at least the longest
\* lookback plus 10.
C32_WindowBounded ==
    (IsKind("ma_cross") \/ IsKind("rsi")) =>
        LET self == strategy[1]
        IN  /\ Len(self.bars_history) <= self.max_history_size
            /\ self.bars_history = LastN(ClosesOf(fed), self.max_history_size)
            /\ self.max_history_size >= Lookback(self) + 10

\* An instance whose window is larger than 100 has been fed more bars than it
\* holds, one of them without a close.
C32_Witness ==
    /\ strategy # None
    /\ strategy[1].kind \in {"ma_cross", "rsi"}
    /\ strategy[1].max_history_size > 100
    /\ Len(fed) > strategy[1].max_history_size + 1
    /\ \E i \in DOMAIN fed : fed[i].close = Absent

----------------------------------------------------------------------------
\* Instances per strategy_id

\* C37: after any sequence of load and unload requests, each strategy_id has at
\* most one instance receiving bars (one live subscription whose handler runs an
\* instance under that id).
C37_OneReceiverPerId ==
    \A s1, s2 \in DOMAIN subs :
        subs[s1].strategy_id = subs[s2].strategy_id => s1 = s2

\* Bodies of POST /strategies/load for buy_hold that name no id, or name one of the
\* form the engine generates.
DefaultIdRequests ==
    { [id |-> i, strategy |-> "buy_hold", params |-> NoParams] :
          i \in {KeyAbsent, DefaultId(1)} }

\* The engine answering such load requests and unload requests for generated ids.
NextDefaultIds ==
    \/ \E request \in DefaultIdRequests : load_strategy(request)
    \/ load_strategy_resume
    \/ \E sub \in DOMAIN subs, payload \in Payloads(EngineBars) :
           message_handler(sub, payload, 0)
    \/ \E n \in {0, 1} : unload_strategy(DefaultId(n))
    \/ unload_strategy_resume

SpecDefaultIds == Init /\ [][NextDefaultIds]_vars

\* C38: a load request that names no id is given a strategy_id that is not
\* loaded at that moment: the id it starts an instance under is not a key of
\* engine.strategies.
C38_DefaultIdNotLoaded ==
    [][\A request \in DefaultIdRequests :
          (request.id = KeyAbsent /\ load_strategy(request)) =>
              \A frame \in pending' \ pending :
                  frame.strategy_id \notin DOMAIN strategies]_vars

----------------------------------------------------------------------------
\* Bars arriving while handlers publish

\* The bus client's record of subscription sub: the messages that arrived for it
\* in arrival order, how many of them its callback was called with, which of them
\* the callback handed to process_bar, and whether the callback is suspended in
\* `await self.publish_signal(signal)`.
BusOf(sub) ==
    IF sub \in DOMAIN bus THEN bus[sub]
    ELSE [arrived |-> << >>, taken |-> 0, passed |-> << >>, busy |-> FALSE]

\* A bar message is published on md.equity.spy.bars.1m.replay: it is queued for
\* every live subscription, all of which are on this subject (line 123).
bus_deliver(payload) ==
    /\ DOMAIN subs # {}
    /\ \A sub \in DOMAIN subs : Len(BusOf(sub).arrived) < MaxArrived
    /\ bus' = [sub \in DOMAIN bus \cup DOMAIN subs |->
                  IF sub \in DOMAIN subs
                  THEN [BusOf(sub) EXCEPT !.arrived = Append(@, payload)]
                  ELSE bus[sub]]
    /\ UNCHANGED <<strategies, strategy_message_counts, message_count, subs, heap,
                   pending, response, regVars, simVars, stratVars>>

\* what process_bar returns for the message the callback of sub is called with;
\* None when the callback does not get as far as line 111
SignalFor(sub, payload) ==
    IF \/ subs[sub].strategy_id \notin DOMAIN strategy_message_counts
       \/ payload = None
    THEN None
    ELSE InstanceProcessBar(heap[subs[sub].instance].instance, payload[1], 0).result

\* The callback of sub called with message number n of those that arrived.
callback(sub, n) ==
    LET entry == BusOf(sub)
        payload == entry.arrived[n]
        reaches == /\ subs[sub].strategy_id \in DOMAIN strategy_message_counts
                   /\ payload # None
    IN  /\ message_handler_upto(MaxLoads * MaxArrived, sub, payload, 0)
        /\ bus' = Put(bus, sub,
                      [entry EXCEPT !.taken = @ + 1,
                                    !.passed = IF reaches THEN Append(@, n) ELSE @,
                                    !.busy = SignalFor(sub, payload) # None])

\* The subscription calling its callback with the newest message that arrived.
subscription_task_NewestFirst(sub) ==
    /\ sub \in DOMAIN subs
    /\ ~ BusOf(sub).busy
    /\ BusOf(sub).taken < Len(BusOf(sub).arrived)
    /\ callback(sub, Len(BusOf(sub).arrived) - BusOf(sub).taken)

\* The subscription made at line 123 with cb=message_handler: the bus client
\* awaits the callback for the oldest message not yet handled, and takes the next
\* one when the callback has returned.
subscription_task(sub) ==
    /\ sub \in DOMAIN subs
    /\ ~ BusOf(sub).busy
    /\ BusOf(sub).taken < Len(BusOf(sub).arrived)
    /\ callback(sub, BusOf(sub).taken + 1)

\* nc.publish returned or raised (lines 142-153): publish_signal returns, and so
\* does the callback.
publish_signal_resume(sub) ==
    /\ sub \in DOMAIN bus
    /\ bus[sub].busy
    /\ bus' = [bus EXCEPT ![sub].busy = FALSE]
    /\ UNCHANGED <<strategies, strategy_message_counts, message_count, subs, heap,
                   pending, response, regVars, simVars, stratVars>>

\* The strategy_id of the load and unload requests made while bars arrive
ArrivalIds == {"a"}

\* Bodies of POST /strategies/load for an MA crossover of periods 1 and 2, which
\* calls BUY on the third bar at the earliest.
ArrivalRequests ==
    { [id |-> i, strategy |-> KeyAbsent,
       params |-> [symbol |-> KeyAbsent, quantity |-> Absent, fast_period |-> Num(1),
                   slow_period |-> Num(2), ma_type |-> KeyAbsent]] : i \in ArrivalIds }

ArrivalBars == { [close |-> Num(10)], [close |-> Num(20)] }

\* One instance is loaded, bars arrive for it, and it is unloaded at any moment.
NextArrival ==
    \/ heap = << >> /\ \E request \in ArrivalRequests : load_strategy(request)
    \/ load_strategy_resume
    \/ \E payload \in Payloads(ArrivalBars) : bus_deliver(payload)
    \/ \E sub \in DOMAIN subs : subscription_task(sub)
    \/ \E sub \in DOMAIN bus : publish_signal_resume(sub)
    \/ \E strategy_id \in ArrivalIds : unload_strategy(strategy_id)
    \/ unload_strategy_resume

SpecArrival == Init /\ [][NextArrival]_vars

\* the closes of the messages numbered by `numbers` among those that arrived
ArrivedCloses(arrived, numbers) ==
    [i \in DOMAIN numbers |-> GetNum(arrived[numbers[i]][1].close, Num(0))[2]]

\* the instance of sub is the only one ever created under its strategy_id
OnlyInstanceOfItsId(h) ==
    \A g \in 1..Len(heap) :
        heap[g].instance.strategy_id = heap[h].instance.strategy_id => g = h

\* C31: for each instance, the bars its handler hands to process_bar are handed
\* over one at a time and in the order they arrived, also when the handler was
\* suspended publishing a signal in between: the instance has had one process_bar
\* call per bar handed over, and its window holds the closes of these bars in
\* arrival order.  For an instance that is the only one of its strategy_id these
\* are all the decodable bars its callback was called with.
C31_BarsInArrivalOrder ==
    \A h \in 1..Len(heap) :
        LET entry == BusOf(h)
            self == heap[h].instance
        IN  /\ \A i \in 1..Len(entry.passed) :
                   /\ entry.passed[i] <= entry.taken
                   /\ i > 1 => entry.passed[i - 1] < entry.passed[i]
            /\ Calls(heap, h, "process_bar") = Len(entry.passed)
            /\ self.bars_history = ArrivedCloses(entry.arrived, entry.passed)
            /\ OnlyInstanceOfItsId(h) =>
                   \A n \in 1..entry.taken :
                       entry.arrived[n] # None =>
                           \E i \in 1..Len(entry.passed) : entry.passed[i] = n

\* An instance called BUY on its third bar, its handler was suspended publishing
\* the signal, and it has processed the bar that arrived meanwhile after that.
C31_Witness ==
    \E h \in 1..Len(heap) :
        /\ heap[h].instance.position = Some("long")
        /\ Len(heap[h].instance.bars_history) = 4
        /\ heap[h].instance.bars_history[3] # heap[h].instance.bars_history[4]
        /\ BusOf(h).taken = 4

----------------------------------------------------------------------------
\* The signals of one instance reaching the execution simulator

\* the signals among what process_bar returned, in emission order
RECURSIVE EmittedSignals(_)
EmittedSignals(results) ==
    IF results = << >> THEN << >>
    ELSE (IF Head(results) = None THEN << >> ELSE <<Head(results)[1]>>)
             \o EmittedSignals(Tail(results))

\* The payload publish_signal sends for a signal (main.py lines 142-147), as the
\* simulator reads it: the strategy's whole dollars in the simulator's unit.
PublishedSignal(signal) ==
    Signal(signal.strategy_id, signal.symbol, signal.action, signal.quantity,
           Num(Dollars(signal.price[2])))

\* Bars of the data model, with a close.
PipelineBars == { [close |-> Num(10)], [close |-> Num(20)] }

\* Parameter maps of the instances whose signals are executed: a buy_hold, an
\* MA crossover of periods 1 and 2, and an RSI of period 2 trading at once at 50.
PipelineParams ==
    { <<"buy_hold", [symbol |-> KeyAbsent, quantity |-> q]>> : q \in {Absent, Num(MaxQty)} }
    \cup { <<"ma_cross", [symbol |-> KeyAbsent, quantity |-> q, fast_period |-> Num(1),
                          slow_period |-> Num(2), ma_type |-> KeyAbsent]>> :
               q \in {Absent, Num(MaxQty)} }
    \cup { <<"rsi", RSIParamsOf(Num(2), Num(50), Absent, Num(0))>>,
           <<"rsi", RSIParamsOf(Num(2), Absent, Num(50), Num(0))>> }

\* The next signal of the instance reaches handle_signal on strategy.signals.<id>.
signal_delivered ==
    /\ delivered < Len(EmittedSignals(returned))
    /\ handle_signal(Some(PublishedSignal(EmittedSignals(returned)[delivered + 1])))
    /\ delivered' = delivered + 1
    /\ UNCHANGED <<strategy, returned, rsi_log, fed, regVars, engVars>>

\* One instance runs under the id "s1"; its signals reach the simulator in emission
\* order, each at any time after it was emitted; the simulator also receives
\* market data; nothing is reset and nobody else sends signals.
NextPipeline ==
    \/ strategy = None /\ \E made \in PipelineParams : create_strategy(made[1], "s1", made[2])
    \/ \E bar \in PipelineBars, rounding \in Roundings : process_bar(bar, rounding)
    \/ signal_delivered
    \/ handle_signal_resume /\ UNCHANGED <<stratVars, regVars, engVars>>
    \/ /\ \E payload \in Payloads(MarketBars) : handle_market_data(payload)
       /\ UNCHANGED <<stratVars, regVars, engVars>>

SpecPipeline == Init /\ [][NextPipeline]_vars

\* C35: while the signals of one ma_cross, rsi or buy_hold instance reach the
\* simulator in emission order under its strategy_id, with no reset and no other
\* producer, every signal delivered is filled for the configured quantity (none
\* is rejected, none is clamped), and the session's position in the symbol is
\* 0 or the configured quantity.
C35_SignalsFilledInFull ==
    strategy # None =>
        LET self == strategy[1]
            emitted == EmittedSignals(returned)
        IN  /\ inflight # None => inflight[1].publishing.kind = "fill"
            /\ IF self.strategy_id \in DOMAIN sessions
               THEN LET session == sessions[self.strategy_id]
                    IN  /\ PositionOf(session, self.symbol) \in {0, self.quantity[2]}
                        /\ Len(session.fills) = delivered
                        /\ \A i \in 1..Len(session.fills) :
                               /\ session.fills[i].action = emitted[i].action
                               /\ session.fills[i].quantity = self.quantity[2]
               ELSE delivered = 0

\* The BUY and the SELL of an MA crossover instance with a configured quantity
\* were both delivered, the SELL while a later bar had already been processed.
C35_Witness ==
    /\ IsKind("ma_cross")
    /\ strategy[1].params.quantity = Num(MaxQty)
    /\ delivered = 2
    /\ "s1" \in DOMAIN sessions
    /\ Len(sessions["s1"].fills) = 2
    /\ sessions["s1"].fills[2].action = "SELL"
    /\ PositionOf(sessions["s1"], "SPY") = 0
    /\ returned[Len(returned)] = None

====
